---- MODULE Spec2Model ----
(***************************************************************************)
(* Model of the database-access layer of the FastAPI example backend:      *)
(* AsyncMySQLHandler (src/db/async_mysql.py).  Requests are coroutines on  *)
(* one event loop; every await of the handler is a place where a request   *)
(* is suspended, where other requests run, and where the caller may be     *)
(* cancelled.  One action is one run of a coroutine from the await it is   *)
(* suspended at to its next await (or to its end).                         *)
(*                                                                         *)
(* The module holds several specifications over one set of variables: Spec *)
(* and SpecTx (requests using the pool), SpecPool (pool creation failure   *)
(* and close_pool), and one per area built on the handler.  The variables  *)
(* of the areas a specification does not use stay at their initial value.  *)
(***************************************************************************)
EXTENDS Integers, FiniteSets, Sequences, TLC

\* Bounds of the model.
NumReqs == 2            \* concurrent requests
MaxPoolSize == 2        \* largest max_pool_size the handler is configured with
MaxStmts == 2           \* statements in a batch / a script / a wrapped scope
MaxCloses == 2          \* calls of close_pool()
TicksPerSecond == 2     \* instants of datetime.utcnow() in one second
MaxAdvances == 3        \* times the clock advances
MaxTokens == 2          \* calls of create_access_token
MaxRows == 3            \* rows the paginated table can hold
MaxPage == 3            \* largest page asked for
MaxPageSize == 3        \* largest page_size asked for
NumCallers == 2         \* concurrent calls of the user service
NumSalts == 1           \* salts bcrypt draws from
NumClients == 2         \* concurrent requests of the user and article routes
MaxTags == 2            \* tags of an article
MaxTagLen == 2          \* characters of a tag

\* my_config.settings: secret_key, access_token_expire_minutes
secret_key == "your-secret-key-here"
access_token_expire_minutes == 30

\* self.pool = None
NoPool == 0

Reqs == 1..NumReqs
\* every request creates at most one pool, so NumReqs ids are enough
PoolIds == 1..NumReqs
Slots == 1..MaxPoolSize
Conns == PoolIds \X Slots
NoConn == <<0, 0>>
StmtIds == Reqs \X (1..(MaxStmts + 1))

\* The operations of the handler a request can call.
\*   execute         execute(sql, params)            (use_transaction=False)
\*   fetch_one       fetch_one(sql, params)
\*   execute_many    execute_many(sql, params_list)  (use_transaction=True)
\*   execute_script  execute_script(script)
\*   wrapped         async with db.transaction(): MaxStmts times await db.execute(..)
\* The last three run MaxStmts statements, the first two run one.
SingleOps == {"execute", "fetch_one"}
MultiOps == {"execute_many", "execute_script", "wrapped"}
\* the operations of the requests of Spec, and of the requests of SpecTx
PoolOps == {"execute", "fetch_one", "execute_many"}
ScopeOps == {"execute", "execute_script", "wrapped"}
\* operations whose statements run inside a transaction() scope
TxOps == {"execute_many", "execute_script", "wrapped"}

VARIABLES
    maxsize,    \* self.max_pool_size, given to the constructor
    pool,       \* self.pool: NoPool or the id of the pool it refers to
    npools,     \* number of pools aiomysql.create_pool has created
    slots,      \* the connections of every pool: owner, last command, uncommitted work
    committed,  \* statements whose effect is committed in the database
    req         \* the requests: operation, position, connections held, outcome

\* close_pool(), the exit hook and the failure of aiomysql.create_pool.
VARIABLES
    closer,     \* the caller of close_pool(): position, pool it waits for, calls made
    closes,     \* for every pool, how many times it was told to close
    closed,     \* the pools whose wait_closed() has returned
    tpool,      \* self.thread_pool: "running" or "shutdown"
    cfail,      \* the requests whose aiomysql.create_pool raised
    retry       \* the requests that had not yet called when a creation failed

dbVars == <<maxsize, pool, npools, slots, committed, req>>
poolVars == <<closer, closes, closed, tpool, cfail, retry>>

\* Token issuance and verification (AuthManager).
VARIABLES
    now,        \* datetime.utcnow(), in ticks
    nadv,       \* how many times the clock has advanced
    issued,     \* the calls of create_access_token: arguments, time, token returned
    accounts,   \* the usernames of the active users in the database
    verdicts    \* for every issued token, what verify_token last said of it

authVars == <<now, nadv, issued, accounts, verdicts>>

\* fetch_paginated and the table its base query reads.
VARIABLES
    rows,       \* the committed rows of the table (their keys; the query orders by key)
    isolation,  \* the transaction isolation level of the server's sessions
    pg          \* the fetch_paginated call: position, arguments, rows read, result

pageVars == <<rows, isolation, pg>>

\* UserService and the users table.
VARIABLES
    users,          \* the rows of the users table
    nextid,         \* the table's AUTO_INCREMENT counter
    unique_index,   \* whether the table has UNIQUE keys on username and on email
    ureq            \* the calls of the service: operation, position, arguments, outcome

userVars == <<users, nextid, unique_index, ureq>>

\* The user routes (update, delete) and the users table as they see it.
VARIABLES
    members,    \* the rows of the users table, with role and status
    mreq        \* the requests of the user routes: principal, arguments, position, outcome

memberVars == <<members, mreq>>

\* ArticleService, the article routes and the articles table.
VARIABLES
    articles,   \* the rows of the articles table
    nextart,    \* the table's AUTO_INCREMENT counter
    areq        \* the requests of the article routes: principal, arguments, position, outcome

articleVars == <<articles, nextart, areq>>

\* The event loop's thread while requests register and log in.
VARIABLES
    loop,       \* the request whose synchronous call keeps the event loop's thread (0: none)
    hreq        \* the requests: operation, position

loopVars == <<loop, hreq>>

\* The variables of the areas built on the handler.
upperVars == <<authVars, pageVars, userVars, memberVars, articleVars, loopVars>>

\* What the steps of each area leave alone.
notAuthVars == <<dbVars, poolVars, pageVars, userVars, memberVars, articleVars, loopVars>>
notPageVars == <<dbVars, poolVars, authVars, userVars, memberVars, articleVars, loopVars>>
notUserVars == <<dbVars, poolVars, authVars, pageVars, memberVars, articleVars, loopVars>>
notMemberVars == <<dbVars, poolVars, authVars, pageVars, userVars, articleVars, loopVars>>
notArticleVars == <<dbVars, poolVars, authVars, pageVars, userVars, loopVars>>
notLoopVars == <<dbVars, poolVars, authVars, pageVars, userVars, memberVars, articleVars>>

\* What the steps of the requests of the database layer leave alone.
otherVars == <<poolVars, upperVars>>

vars == <<dbVars, otherVars>>

\* A connection nobody holds: no owner, no open transaction.
\* last is the last command the session completed since checkout:
\*   "none", "begin", "stmt" (transaction open), "commit", "rollback".
FreeSlot == [owner |-> 0, last |-> "none", pending |-> {}]

IdleReq == [op |-> "none", pc |-> "idle", n |-> 0, k |-> 0,
            conn |-> NoConn, outer |-> NoConn, bound |-> NoPool,
            exc |-> "none", rel |-> {}]

\* The handler after __init__: no pool yet, the thread pool running.
InitDb ==
    /\ maxsize \in 1..MaxPoolSize
    /\ pool = NoPool
    /\ npools = 0
    /\ slots = [c \in Conns |-> FreeSlot]
    /\ committed = {}
    /\ req = [r \in Reqs |-> IdleReq]

IdleCloser == [pc |-> "idle", target |-> NoPool, calls |-> 0]

InitPool ==
    /\ closer = IdleCloser
    /\ closes = [p \in PoolIds |-> 0]
    /\ closed = {}
    /\ tpool = "running"
    /\ cfail = {}
    /\ retry = {}

\* The usernames of the model.
Users == {"alice"}

\* No verify_token call on a token yet.
NoVerdict == [seen |-> FALSE, tampered |-> FALSE, out |-> [status_code |-> 0]]

InitAuth ==
    /\ now = 0
    /\ nadv = 0
    /\ issued = <<>>
    /\ accounts = Users
    /\ verdicts = [i \in 1..MaxTokens |-> NoVerdict]

\* fetch_paginated not called: no arguments, nothing read, no result.
IdlePager == [pc |-> "idle", page |-> 0, page_size |-> 0, seen |-> {},
              result |-> [items |-> <<>>, total |-> 0, page |-> 0,
                          page_size |-> 0, total_pages |-> 0]]

\* An empty table on a server with MySQL's default isolation level.
InitPage ==
    /\ rows = {}
    /\ isolation = "REPEATABLE-READ"
    /\ pg = IdlePager

Callers == 1..NumCallers

\* A str of n bytes: n - 1 times "a", then the byte last.
Pw(n, last) == [i \in 1..n |-> IF i = n THEN last ELSE 97]

\* bcrypt hashes the first 72 bytes of a password.
BcryptBytes == 72

\* pwd_context.hash(password) with the salt bcrypt drew: the salt and the
\* digest of the salt and the first BcryptBytes bytes of the password.
Truncated(password) ==
    SubSeq(password, 1, IF Len(password) < BcryptBytes THEN Len(password)
                        ELSE BcryptBytes)
GetPasswordHash(password, salt) ==
    [salt |-> salt, digest |-> <<"bcrypt", salt, Truncated(password)>>]

\* pwd_context.verify(plain_password, hashed_password)
VerifyPassword(plain_password, hashed_password) ==
    GetPasswordHash(plain_password, hashed_password.salt) = hashed_password

\* fetch_one found no row (None).
NoRow == [id |-> 0, username |-> "", email |-> "",
          password_hash |-> GetPasswordHash(<<>>, 0),
          is_active |-> FALSE, by |-> 0, pw |-> <<>>]

\* The user the table holds from the start, registered earlier.
\* by (the call that inserted the row) and pw (the password it was given)
\* are not columns: they are kept to state the claims.
FirstUser == [id |-> 1, username |-> "ann", email |-> "ann@x.io",
              password_hash |-> GetPasswordHash(Pw(6, 98), 1),
              is_active |-> TRUE, by |-> 0, pw |-> Pw(6, 98)]

IdleCaller == [op |-> "none", pc |-> "idle", id |-> 0, username |-> "",
               email |-> "", password |-> <<>>, seen |-> {},
               result |-> NoRow, exc |-> "none"]

InitUser ==
    /\ users = {FirstUser}
    /\ nextid = 2
    /\ unique_index = FALSE
    /\ ureq = [r \in Callers |-> IdleCaller]

Clients == 1..NumClients

\* Optional[...] values: None, and a value that is given.
None == <<>>
Some(v) == <<v>>

\* fetch_one found no user (None).
NoMember == [id |-> 0, username |-> "", email |-> "", full_name |-> "",
             role |-> "", status |-> "", is_active |-> FALSE, updated_at |-> 0]

\* The users the table holds from the start: an administrator, a user and a
\* moderator, all active.  updated_at counts the updates of the row (0: NULL).
Members0 ==
    {[id |-> 1, username |-> "root", email |-> "root@x.io", full_name |-> "Root",
      role |-> "admin", status |-> "active", is_active |-> TRUE, updated_at |-> 0],
     [id |-> 2, username |-> "ann", email |-> "ann@x.io", full_name |-> "Ann",
      role |-> "user", status |-> "active", is_active |-> TRUE, updated_at |-> 0],
     [id |-> 3, username |-> "bob", email |-> "bob@x.io", full_name |-> "Bob",
      role |-> "moderator", status |-> "active", is_active |-> TRUE, updated_at |-> 0]}

MemberIds == {m.id : m \in Members0}

\* A request body without any field.
EmptyBody == [f \in {} |-> ""]

\* sub is the user the request's token names.
IdleRoute == [op |-> "none", pc |-> "idle", sub |-> 0, current_user |-> NoMember,
              user_id |-> 0, body |-> EmptyBody, user_update |-> EmptyBody,
              update_fields |-> EmptyBody, result |-> NoMember, exc |-> "none"]

InitMember ==
    /\ members = Members0
    /\ mreq = [r \in Clients |-> IdleRoute]

\* fetch_one found no article (None).  tags is the stored text, a str.
NoArticle == [id |-> 0, title |-> "", content |-> "", summary |-> "",
              tags |-> <<>>, is_published |-> FALSE, author_id |-> 0,
              view_count |-> 0, updated_at |-> 0]

\* What get_article_by_id returns for no article: None.
NoDetail == [row |-> NoArticle, tags |-> [ok |-> TRUE, val |-> None]]

IdleArticleReq == [op |-> "none", pc |-> "idle", user_id |-> 0, id |-> 0,
                   body |-> EmptyBody, data |-> EmptyBody,
                   article |-> NoArticle, user |-> NoMember,
                   update_fields |-> EmptyBody,
                   result |-> NoDetail, exc |-> "none"]

\* The text json.dumps gives for ["a", "b"].
TagsAB == <<"[", "\"", "a", "\"", ",", " ", "\"", "b", "\"", "]">>

\* The article the table holds from the start, written by user 2.
Article1 == [id |-> 1, title |-> "t0", content |-> "c0", summary |-> "s0",
             tags |-> TagsAB, is_published |-> FALSE, author_id |-> 2,
             view_count |-> 0, updated_at |-> 0]

InitArticle ==
    /\ articles = {Article1}
    /\ nextart = 2
    /\ areq = [r \in Clients |-> IdleArticleReq]

\* A request of the loop area that has not started.
IdleLoopReq == [op |-> "none", pc |-> "idle"]

\* The event loop is idle: no coroutine is running.
InitLoop ==
    /\ loop = 0
    /\ hreq = [r \in Callers |-> IdleLoopReq]

Init ==
    /\ InitDb
    /\ InitPool
    /\ InitAuth
    /\ InitPage
    /\ InitUser
    /\ InitMember
    /\ InitArticle
    /\ InitLoop

\* The initial state of the specifications of the areas built on the
\* handler: one configuration of the handler is enough for them.
InitUpper == Init /\ maxsize = MaxPoolSize

\* The last commands after which a session has an open transaction
\* (autocommit is off: BEGIN and every statement open one; COMMIT and
\* ROLLBACK end it).
OpenLast == {"begin", "stmt"}

\* The request runs a nested execute() called from the body of its own
\* transaction() scope; outer is that scope's connection.
InNested(r) == req[r].outer # NoConn

\* The innermost scope of r is a transaction() scope.
FrameTx(r) == req[r].op \in TxOps /\ ~InNested(r)

\* Mutant of FreeSlots: acquire() hands out a connection without looking
\* whether it is in use.
AnySlots(p) == 1..maxsize

\* The connections of pool p that are in its free list (or not opened yet).
FreeSlots(p) == {s \in 1..maxsize : slots[<<p, s>>].owner = 0}

MinOf(S) == CHOOSE x \in S : \A y \in S : x <= y

\* Every connection some request has checked out.
CheckedOut == {c \in Conns : slots[c].owner # 0}

\* pool.release(conn): the connection leaves the used set; a connection that
\* is still in a transaction is closed (the server discards its uncommitted
\* work), any other goes back to the free list.
Released(sl, c) == [sl EXCEPT ![c] = FreeSlot]

\* The awaits of a request: where it is suspended and can be cancelled.
AwaitPcs == {"creating", "acquire", "begin", "stmt", "commit",
             "rollback_tx", "rollback_gc"}

\* The connections r holds.
Held(r) == {req[r].conn, req[r].outer} \ {NoConn}

\* get_connection() up to its first await: _ensure_pool() tests self.pool and
\* either awaits aiomysql.create_pool or goes on to self.pool.acquire().
EnterScope(r, rq) ==
    [rq EXCEPT !.pc = IF pool = NoPool THEN "creating" ELSE "acquire",
               !.bound = pool]

\* A request calls an operation of the handler.
Call(r, o) ==
    /\ req[r].pc = "idle"
    /\ req' = [req EXCEPT ![r] =
                 EnterScope(r, [@ EXCEPT !.op = o,
                                         !.n = IF o \in MultiOps THEN MaxStmts ELSE 1])]
    /\ UNCHANGED <<otherVars, maxsize, pool, npools, slots, committed>>

\* aiomysql.create_pool returns: the new pool is assigned to self.pool, whatever
\* self.pool holds by now, and get_connection goes on to self.pool.acquire().
CreatePool(r) ==
    /\ req[r].pc = "creating"
    /\ npools' = npools + 1
    /\ pool' = npools + 1
    /\ req' = [req EXCEPT ![r].pc = "acquire", ![r].bound = npools + 1]
    /\ UNCHANGED <<otherVars, maxsize, slots, committed>>

\* pool.acquire() returns a connection of the pool the request called it on:
\* one of the free list, and it waits while the pool has maxsize in use.
Acquire(r) ==
    /\ req[r].pc = "acquire"
    /\ FreeSlots(req[r].bound) # {}
    /\ LET c == <<req[r].bound, MinOf(FreeSlots(req[r].bound))>> IN
        /\ slots' = [slots EXCEPT ![c] = [FreeSlot EXCEPT !.owner = r]]
        /\ req' = [req EXCEPT ![r].conn = c, ![r].bound = NoPool,
                              ![r].pc = IF FrameTx(r) THEN "begin" ELSE "stmt"]
    /\ UNCHANGED <<otherVars, maxsize, pool, npools, committed>>

\* transaction(): await conn.begin().  The body of a wrapped scope then calls
\* execute(), which enters a connection scope of its own.
Begin(r) ==
    /\ req[r].pc = "begin"
    /\ slots' = [slots EXCEPT ![req[r].conn].last = "begin"]
    /\ req' = [req EXCEPT ![r] =
                 IF req[r].op = "wrapped"
                 THEN EnterScope(r, [req[r] EXCEPT !.outer = req[r].conn,
                                                   !.conn = NoConn])
                 ELSE [req[r] EXCEPT !.pc = "stmt"]]
    /\ UNCHANGED <<otherVars, maxsize, pool, npools, committed>>

\* Mutant of ExecStmt: the pool is created with autocommit=True, so every
\* statement is committed as soon as it has run.
ExecStmtAutocommit(r) ==
    /\ req[r].pc = "stmt"
    /\ req[r].op # "fetch_one"
    /\ committed' = committed \cup {<<r, req[r].k + 1>>}
    /\ slots' = [slots EXCEPT ![req[r].conn].last = "stmt"]
    /\ req' = [req EXCEPT
                 ![r].k = IF InNested(r) THEN @ ELSE @ + 1,
                 ![r].pc = IF InNested(r) \/ req[r].k + 1 = req[r].n
                           THEN "commit" ELSE "stmt"]
    /\ UNCHANGED <<otherVars, maxsize, pool, npools>>

\* cursor.execute(sql) succeeds (one statement of cursor.executemany, of the
\* script's loop, or the statement of execute / fetch_one).  fetch_one returns
\* after it, and leaving the scope releases the connection.
ExecStmt(r) ==
    /\ req[r].pc = "stmt"
    /\ LET c == req[r].conn
           rq == req[r]
           work == IF rq.op = "fetch_one" THEN {} ELSE {<<r, rq.k + 1>>}
           after == [slots EXCEPT ![c].last = "stmt",
                                  ![c].pending = @ \cup work] IN
        IF rq.op = "fetch_one"
        THEN /\ slots' = Released(after, c)
             /\ req' = [req EXCEPT ![r].pc = "done", ![r].k = 1,
                                   ![r].conn = NoConn,
                                   ![r].rel = @ \cup {"stmt"}]
        ELSE /\ slots' = after
             /\ req' = [req EXCEPT
                          ![r].k = IF InNested(r) THEN @ ELSE @ + 1,
                          ![r].pc = IF InNested(r) \/ rq.k + 1 = rq.n
                                    THEN "commit" ELSE "stmt"]
    /\ UNCHANGED <<otherVars, maxsize, pool, npools, committed>>

\* The handler an exception raised in the innermost scope reaches first:
\* transaction()'s except, or get_connection()'s.
Handler(r) == IF FrameTx(r) THEN "rollback_tx" ELSE "rollback_gc"

\* Mutant of StmtFails: the exception of a statement is swallowed and the
\* operation goes on with its next statement.
StmtFailsSwallowed(r) ==
    /\ req[r].pc = "stmt"
    /\ req[r].op # "fetch_one"
    /\ req' = [req EXCEPT
                 ![r].k = IF InNested(r) THEN @ ELSE @ + 1,
                 ![r].pc = IF InNested(r) \/ req[r].k + 1 = req[r].n
                           THEN "commit" ELSE "stmt"]
    /\ UNCHANGED <<otherVars, maxsize, pool, npools, slots, committed>>

\* cursor.execute(sql) raises (a statement the server rejects).
StmtFails(r) ==
    /\ req[r].pc = "stmt"
    /\ req' = [req EXCEPT ![r].exc = "error", ![r].pc = Handler(r)]
    /\ UNCHANGED <<otherVars, maxsize, pool, npools, slots, committed>>

\* Mutant of Commit: the operation returns without committing (the
\* await conn.commit() is missing); the connection is released as it is.
CommitSkipped(r) ==
    /\ req[r].pc = "commit"
    /\ LET c == req[r].conn
           rq == req[r] IN
        /\ slots' = Released(slots, c)
        /\ req' = [req EXCEPT ![r] =
                     IF InNested(r)
                     THEN IF rq.k + 1 < rq.n
                          THEN EnterScope(r, [@ EXCEPT !.k = @ + 1, !.conn = NoConn,
                                                       !.rel = @ \cup {slots[c].last}])
                          ELSE [@ EXCEPT !.k = @ + 1, !.conn = rq.outer,
                                         !.outer = NoConn, !.pc = "commit",
                                         !.rel = @ \cup {slots[c].last}]
                     ELSE [@ EXCEPT !.pc = "done", !.conn = NoConn,
                                    !.rel = @ \cup {slots[c].last}]]
    /\ UNCHANGED <<otherVars, maxsize, pool, npools, committed>>

\* await conn.commit() succeeds; the scope ends and the connection is
\* released.  A nested execute() returns to the body of the wrapped scope,
\* which calls the next execute() or ends, and then the scope commits.
Commit(r) ==
    /\ req[r].pc = "commit"
    /\ LET c == req[r].conn
           rq == req[r] IN
        /\ committed' = committed \cup slots[c].pending
        /\ slots' = Released(slots, c)
        /\ req' = [req EXCEPT ![r] =
                     IF InNested(r)
                     THEN IF rq.k + 1 < rq.n
                          THEN EnterScope(r, [@ EXCEPT !.k = @ + 1, !.conn = NoConn,
                                                       !.rel = @ \cup {"commit"}])
                          ELSE [@ EXCEPT !.k = @ + 1, !.conn = rq.outer,
                                         !.outer = NoConn, !.pc = "commit",
                                         !.rel = @ \cup {"commit"}]
                     ELSE [@ EXCEPT !.pc = "done", !.conn = NoConn, !.rel = @ \cup {"commit"}]]
    /\ UNCHANGED <<otherVars, maxsize, pool, npools>>

\* await conn.commit() raises: nothing is committed.
CommitFails(r) ==
    /\ req[r].pc = "commit"
    /\ req' = [req EXCEPT ![r].exc = "error", ![r].pc = Handler(r)]
    /\ UNCHANGED <<otherVars, maxsize, pool, npools, slots, committed>>

\* transaction(): except Exception: await conn.rollback(); raise.  The
\* exception goes on to get_connection()'s except.
RollbackTx(r) ==
    /\ req[r].pc = "rollback_tx"
    /\ slots' = [slots EXCEPT ![req[r].conn].last = "rollback",
                              ![req[r].conn].pending = {}]
    /\ req' = [req EXCEPT ![r].pc = "rollback_gc"]
    /\ UNCHANGED <<otherVars, maxsize, pool, npools, committed>>

\* Mutant of RollbackGC: get_connection() re-raises without rolling back.
RollbackGCSkipped(r) ==
    /\ req[r].pc = "rollback_gc"
    /\ LET c == req[r].conn
           rq == req[r] IN
        /\ slots' = Released(slots, c)
        /\ req' = [req EXCEPT ![r] =
                     IF InNested(r)
                     THEN [@ EXCEPT !.conn = rq.outer, !.outer = NoConn,
                                    !.pc = "rollback_tx",
                                    !.rel = @ \cup {slots[c].last}]
                     ELSE [@ EXCEPT !.pc = "done", !.conn = NoConn,
                                    !.rel = @ \cup {slots[c].last}]]
    /\ UNCHANGED <<otherVars, maxsize, pool, npools, committed>>

\* get_connection(): except Exception: await conn.rollback(); raise.  The
\* scope ends, the connection is released and the exception reaches the
\* caller: of a nested execute(), the body of the transaction() scope.
RollbackGC(r) ==
    /\ req[r].pc = "rollback_gc"
    /\ LET c == req[r].conn
           rq == req[r] IN
        /\ slots' = Released(slots, c)
        /\ req' = [req EXCEPT ![r] =
                     IF InNested(r)
                     THEN [@ EXCEPT !.conn = rq.outer, !.outer = NoConn,
                                    !.pc = "rollback_tx",
                                    !.rel = @ \cup {"rollback"}]
                     ELSE [@ EXCEPT !.pc = "done", !.conn = NoConn, !.rel = @ \cup {"rollback"}]]
    /\ UNCHANGED <<otherVars, maxsize, pool, npools, committed>>

\* Mutant of Cancel: a cancelled caller leaves its scopes without releasing
\* the connections it holds.
CancelLeak(r) ==
    /\ req[r].pc \in AwaitPcs
    /\ req' = [req EXCEPT ![r].pc = "done", ![r].exc = "cancelled",
                          ![r].conn = NoConn, ![r].outer = NoConn,
                          ![r].bound = NoPool,
                          ![r].k = IF req[r].op = "wrapped" THEN @ ELSE 0]
    /\ UNCHANGED <<otherVars, maxsize, pool, npools, slots, committed>>

\* The caller is cancelled at an await.  CancelledError is not an Exception:
\* no except clause of the handler runs, the scopes end and every connection
\* held is released as it is.  A COMMIT that was already sent may have been
\* carried out by the server (applied).
Cancel(r) ==
    /\ req[r].pc \in AwaitPcs
    /\ \E applied \in (IF req[r].pc = "commit" THEN BOOLEAN ELSE {FALSE}) :
         LET was(c) == IF applied /\ c = req[r].conn THEN "commit"
                       ELSE slots[c].last IN
           /\ committed' = IF applied
                           THEN committed \cup slots[req[r].conn].pending
                           ELSE committed
           /\ req' = [req EXCEPT
                        ![r].pc = "done", ![r].exc = "cancelled",
                        ![r].conn = NoConn, ![r].outer = NoConn,
                        ![r].bound = NoPool,
                        ![r].k = IF req[r].op = "wrapped" THEN @ ELSE 0,
                        ![r].rel = @ \cup {was(c) : c \in Held(r)}]
    /\ slots' = [c \in Conns |-> IF c \in Held(r) THEN FreeSlot ELSE slots[c]]
    /\ UNCHANGED <<otherVars, maxsize, pool, npools>>

\* The steps of a request that has called its operation.
Step(r) ==
    \/ CreatePool(r)
    \/ Acquire(r)
    \/ Begin(r)
    \/ ExecStmt(r)
    \/ StmtFails(r)
    \/ Commit(r)
    \/ CommitFails(r)
    \/ RollbackTx(r)
    \/ RollbackGC(r)
    \/ Cancel(r)

\* Requests that use the pool through execute, fetch_one and execute_many.
Next == \E r \in Reqs : (\E o \in PoolOps : Call(r, o)) \/ Step(r)

Spec == Init /\ [][Next]_vars

\* Requests that run transaction() scopes: scripts, and scopes whose body
\* calls execute().
NextTx == \E r \in Reqs : (\E o \in ScopeOps : Call(r, o)) \/ Step(r)

SpecTx == Init /\ [][NextTx]_vars

\* ---- pool creation failure, close_pool() and the exit hook ----

\* The connections of pool p that are checked out.
InUse(p) == {c \in CheckedOut : c[1] = p}

\* Mutant of CreatePoolFails: the failed creation leaves a pool object in
\* self.pool, so that later operations do not create one.
CreatePoolFailsSticky(r) ==
    /\ req[r].pc = "creating"
    /\ npools < NumReqs
    /\ pool' = npools + 1
    /\ req' = [req EXCEPT ![r].pc = "done", ![r].exc = "error"]
    /\ cfail' = cfail \cup {r}
    /\ retry' = retry \cup {q \in Reqs : req[q].pc = "idle"}
    /\ UNCHANGED <<upperVars, maxsize, npools, slots, committed, closer, closes, closed, tpool>>

\* _ensure_pool(): aiomysql.create_pool raises (the server cannot be reached,
\* the credentials are refused).  except Exception: log; raise.  Nothing was
\* assigned to self.pool, and the exception leaves get_connection() before
\* any connection scope was entered.
CreatePoolFails(r) ==
    /\ req[r].pc = "creating"
    /\ req' = [req EXCEPT ![r].pc = "done", ![r].exc = "error"]
    /\ cfail' = cfail \cup {r}
    /\ retry' = retry \cup {q \in Reqs : req[q].pc = "idle"}
    /\ UNCHANGED <<upperVars, maxsize, pool, npools, slots, committed, closer, closes, closed, tpool>>

\* self.pool.acquire() on a pool that was told to close raises RuntimeError
\* before any connection is handed out.
AcquireFails(r) ==
    /\ req[r].pc = "acquire"
    /\ closes[req[r].bound] > 0
    /\ req' = [req EXCEPT ![r].pc = "done", ![r].exc = "error", ![r].bound = NoPool]
    /\ UNCHANGED <<upperVars, maxsize, pool, npools, slots, committed, poolVars>>

\* close_pool() up to its await.  With a pool: self.pool.close(), then
\* await self.pool.wait_closed().  Without one: only
\* self.thread_pool.shutdown(wait=True), and the call returns.
CloseCall ==
    /\ closer.pc = "idle"
    /\ closer.calls < MaxCloses
    /\ IF pool # NoPool
       THEN /\ closes' = [closes EXCEPT ![pool] = @ + 1]
            /\ closer' = [pc |-> "wait_closed", target |-> pool,
                          calls |-> closer.calls + 1]
            /\ UNCHANGED tpool
       ELSE /\ tpool' = "shutdown"
            /\ closer' = [closer EXCEPT !.calls = @ + 1]
            /\ UNCHANGED closes
    /\ UNCHANGED <<upperVars, dbVars, closed, cfail, retry>>

\* Mutant of CloseWait: close_pool() does not unset self.pool.
CloseWaitKeepsPool ==
    /\ closer.pc = "wait_closed"
    /\ InUse(closer.target) = {}
    /\ closed' = closed \cup {closer.target}
    /\ tpool' = "shutdown"
    /\ closer' = [closer EXCEPT !.pc = "idle", !.target = NoPool]
    /\ UNCHANGED <<upperVars, dbVars, closes, cfail, retry>>

\* wait_closed() returns once every connection of the pool is back and
\* closed; then self.pool = None and self.thread_pool.shutdown(wait=True).
CloseWait ==
    /\ closer.pc = "wait_closed"
    /\ InUse(closer.target) = {}
    /\ closed' = closed \cup {closer.target}
    /\ pool' = NoPool
    /\ tpool' = "shutdown"
    /\ closer' = [closer EXCEPT !.pc = "idle", !.target = NoPool]
    /\ UNCHANGED <<upperVars, maxsize, npools, slots, committed, req, closes, cfail, retry>>

\* No request is inside an operation.
Quiet == \A r \in Reqs : req[r].pc \in {"idle", "done"}

\* _cleanup_on_exit(), run by atexit when the process ends: with a pool
\* still set, _force_close() closes it on a new event loop and shuts the
\* thread pool down; self.pool is left as it is.  Nothing runs afterwards.
AtExit ==
    /\ closer.pc = "idle"
    /\ Quiet
    /\ IF pool # NoPool
       THEN /\ closes' = [closes EXCEPT ![pool] = @ + 1]
            /\ closed' = closed \cup {pool}
            /\ tpool' = "shutdown"
       ELSE UNCHANGED <<closes, closed, tpool>>
    /\ closer' = [closer EXCEPT !.pc = "exited"]
    /\ UNCHANGED <<upperVars, dbVars, cfail, retry>>

\* run_in_thread(func): loop.run_in_executor(self.thread_pool, func).  An
\* executor that was shut down refuses the job (RuntimeError: cannot
\* schedule new futures after shutdown); otherwise the caller awaits the
\* worker thread.
RunInThread(r) ==
    /\ req[r].pc = "idle"
    /\ req' = [req EXCEPT ![r] =
                 IF tpool = "shutdown"
                 THEN [@ EXCEPT !.op = "run_in_thread", !.pc = "done", !.exc = "error"]
                 ELSE [@ EXCEPT !.op = "run_in_thread", !.pc = "thread"]]
    /\ UNCHANGED <<otherVars, maxsize, pool, npools, slots, committed>>

\* The worker thread has run func and the caller is resumed with its result.
ThreadReturns(r) ==
    /\ req[r].pc = "thread"
    /\ req' = [req EXCEPT ![r].pc = "done"]
    /\ UNCHANGED <<otherVars, maxsize, pool, npools, slots, committed>>

\* The requests of Spec, and requests that use run_in_thread, while pool
\* creation may fail, close_pool() is called and the process may end.
NextPool ==
    \/ \E r \in Reqs :
          \/ closer.pc # "exited" /\ \E o \in PoolOps : Call(r, o)
          \/ closer.pc # "exited" /\ RunInThread(r)
          \/ ThreadReturns(r)
          \/ Step(r)
          \/ CreatePoolFails(r)
          \/ AcquireFails(r)
    \/ CloseCall
    \/ CloseWait
    \/ AtExit

SpecPool == Init /\ [][NextPool]_vars

\* ---- AuthManager: create_access_token and verify_token ----

\* The claims a caller passes as data, and the expires_delta it passes:
\* None (<<>>), timedelta(0), and a second and a half.
Claims == {[sub |-> "alice", role |-> "admin"], [role |-> "admin"]}
Deltas == {<<>>, <<0>>, <<TicksPerSecond + 1>>}

\* timegm(t.utctimetuple()): an instant as whole seconds (jwt.encode does
\* this to the exp claim, jwt.decode to the current time).
ToSeconds(t) == t \div TicksPerSecond

\* timedelta(minutes=self.access_token_expire_minutes)
DefaultDelta == access_token_expire_minutes * 60 * TicksPerSecond

\* if expires_delta: None is false, and so is timedelta(0).
Truthy(delta) == delta # <<>> /\ delta[1] # 0

\* The signature of a payload under a key.
Sign(payload, key) == <<key, payload>>

\* dict.update({k: v})
Update(data, k, v) ==
    [c \in DOMAIN data \cup {k} |-> IF c = k THEN v ELSE data[c]]

\* create_access_token(data, expires_delta) called at utcnow.
CreateAccessToken(data, delta, utcnow) ==
    LET expire == IF Truthy(delta) THEN utcnow + delta[1]
                  ELSE utcnow + DefaultDelta
        payload == Update(data, "exp", ToSeconds(expire))
    IN [payload |-> payload, sig |-> Sign(payload, secret_key)]

\* HTTPException(status_code=401), and TokenData(username=...)
Unauthorized == [status_code |-> 401]
TokenData(u) == [username |-> u]

\* Mutant of VerifyToken: jwt.decode does not look at the exp claim.
VerifyTokenNoExpiry(token, utcnow) ==
    IF token.sig # Sign(token.payload, secret_key) THEN Unauthorized
    ELSE IF "sub" \notin DOMAIN token.payload THEN Unauthorized
    ELSE TokenData(token.payload["sub"])

\* Mutant of VerifyToken: the token is also checked against the users of the
\* database, as get_current_user does after verify_token.
VerifyTokenActiveUser(token, utcnow) ==
    IF token.sig # Sign(token.payload, secret_key) THEN Unauthorized
    ELSE IF token.payload["exp"] < ToSeconds(utcnow) THEN Unauthorized
    ELSE IF "sub" \notin DOMAIN token.payload THEN Unauthorized
    ELSE IF token.payload["sub"] \notin accounts THEN Unauthorized
    ELSE TokenData(token.payload["sub"])

\* verify_token(token) called at utcnow.  jwt.decode raises JWTError when
\* the signature does not verify and when exp is less than the current
\* second; payload.get("sub") is None when there is no subject.
VerifyToken(token, utcnow) ==
    IF token.sig # Sign(token.payload, secret_key) THEN Unauthorized
    ELSE IF token.payload["exp"] < ToSeconds(utcnow) THEN Unauthorized
    ELSE IF "sub" \notin DOMAIN token.payload THEN Unauthorized
    ELSE TokenData(token.payload["sub"])

\* What verify_token says now of the i-th token issued.
Verdict(i) == VerifyToken(issued[i].token, now)

\* A token whose payload was altered after signing.
Tampered(token) == [token EXCEPT !.payload = Update(@, "sub", "root")]

\* The clock advances: by one tick, or by the default lifetime of a token.
Advance(d) ==
    /\ nadv < MaxAdvances
    /\ now' = now + d
    /\ nadv' = nadv + 1
    /\ verdicts' = [i \in 1..MaxTokens |-> NoVerdict]
    /\ UNCHANGED <<notAuthVars, issued, accounts>>

\* Some caller calls create_access_token(data, expires_delta).
CreateToken(data, delta) ==
    /\ Len(issued) < MaxTokens
    /\ issued' = Append(issued, [data |-> data, delta |-> delta, iat |-> now,
                                 token |-> CreateAccessToken(data, delta, now)])
    /\ UNCHANGED <<notAuthVars, now, nadv, accounts>>
    /\ verdicts' = [i \in 1..MaxTokens |-> NoVerdict]

\* login: authenticate_user found the active user u, and the token is
\* create_access_token(data={"sub": user["username"]}).
Login(u) ==
    /\ u \in accounts
    /\ Len(issued) < MaxTokens
    /\ issued' = Append(issued, [data |-> [sub |-> u], delta |-> <<>>, iat |-> now,
                                 token |-> CreateAccessToken([sub |-> u], <<>>, now)])
    /\ UNCHANGED <<notAuthVars, now, nadv, accounts>>
    /\ verdicts' = [i \in 1..MaxTokens |-> NoVerdict]

\* verify_token is called on an issued token, as issued or tampered with.
\* verdicts holds what verify_token said since the last other step.
Verify(i, tampered) ==
    /\ i \in 1..Len(issued)
    /\ LET t == IF tampered THEN Tampered(issued[i].token) ELSE issued[i].token IN
         verdicts' = [verdicts EXCEPT ![i] =
                        [seen |-> TRUE, tampered |-> tampered,
                         out |-> VerifyToken(t, now)]]
    /\ UNCHANGED <<notAuthVars, now, nadv, issued, accounts>>

\* A user is deleted (delete_user), or renamed away (update_user).
RemoveUser(u) ==
    /\ u \in accounts
    /\ accounts' = accounts \ {u}
    /\ UNCHANGED <<notAuthVars, now, nadv, issued>>
    /\ verdicts' = [i \in 1..MaxTokens |-> NoVerdict]

\* A user registers (create_user).
AddUser(u) ==
    /\ u \notin accounts
    /\ accounts' = accounts \cup {u}
    /\ UNCHANGED <<notAuthVars, now, nadv, issued>>
    /\ verdicts' = [i \in 1..MaxTokens |-> NoVerdict]

NextAuth ==
    \/ \E d \in {1, DefaultDelta} : Advance(d)
    \/ \E data \in Claims, delta \in Deltas : CreateToken(data, delta)
    \/ \E u \in Users : Login(u)
    \/ \E i \in 1..MaxTokens, tampered \in BOOLEAN : Verify(i, tampered)
    \/ \E u \in Users : RemoveUser(u)
    \/ \E u \in Users : AddUser(u)

\* Tokens are issued and verified while the clock advances and users come
\* and go; the handler is not used.
SpecAuth == InitUpper /\ [][NextAuth]_vars

\* ---- fetch_paginated ----

RowIds == 1..MaxRows

\* The isolation levels a server can run the handler's sessions at; the
\* handler sets none (autocommit=False, no SET TRANSACTION).
Isolations == {"REPEATABLE-READ", "READ-COMMITTED"}

\* The result of the base query over a set of rows: the rows in key order.
RECURSIVE QueryRows(_)
QueryRows(S) ==
    IF S = {} THEN <<>>
    ELSE <<MinOf(S)>> \o QueryRows(S \ {MinOf(S)})

\* LIMIT limit OFFSET offset
Window(seq, offset, limit) ==
    IF offset >= Len(seq) THEN <<>>
    ELSE SubSeq(seq, offset + 1,
                IF offset + limit < Len(seq) THEN offset + limit ELSE Len(seq))

\* Mutant of TotalPages: total // page_size
TotalPagesFloor(total, page_size) == total \div page_size

\* (total + page_size - 1) // page_size
TotalPages(total, page_size) == (total + page_size - 1) \div page_size

\* fetch_paginated(sql, page, page_size) is called; it has a connection.
PageCall(page, page_size) ==
    /\ pg.pc = "idle"
    /\ pg' = [pg EXCEPT !.pc = "count", !.page = page, !.page_size = page_size]
    /\ UNCHANGED <<notPageVars, rows, isolation>>

\* cursor.execute(count_sql); total = total_result['total'].  It is the first
\* statement of the session's transaction: its read view is what a
\* REPEATABLE-READ session goes on reading.
CountQuery ==
    /\ pg.pc = "count"
    /\ pg' = [pg EXCEPT !.pc = "page", !.seen = rows,
                        !.result.total = Cardinality(rows)]
    /\ UNCHANGED <<notPageVars, rows, isolation>>

\* cursor.execute(paginated_sql); data = cursor.fetchall(); the envelope is
\* returned.  The statement reads the transaction's read view at
\* REPEATABLE-READ and the rows committed by now at READ-COMMITTED.
PageQuery ==
    /\ pg.pc = "page"
    /\ LET offset == (pg.page - 1) * pg.page_size
           view == IF isolation = "REPEATABLE-READ" THEN pg.seen ELSE rows IN
         pg' = [pg EXCEPT !.pc = "done",
                          !.result = [items |-> Window(QueryRows(view), offset, pg.page_size),
                                      total |-> pg.result.total,
                                      page |-> pg.page,
                                      page_size |-> pg.page_size,
                                      total_pages |-> TotalPages(pg.result.total,
                                                                 pg.page_size)]]
    /\ UNCHANGED <<notPageVars, rows, isolation>>

\* Another request inserts a row and commits.
InsertRow(x) ==
    /\ x \notin rows
    /\ rows' = rows \cup {x}
    /\ UNCHANGED <<notPageVars, isolation, pg>>

\* Another request deletes a row and commits.
DeleteRow(x) ==
    /\ x \in rows
    /\ rows' = rows \ {x}
    /\ UNCHANGED <<notPageVars, isolation, pg>>

NextPage ==
    \/ \E page \in 1..MaxPage, page_size \in 1..MaxPageSize : PageCall(page, page_size)
    \/ CountQuery
    \/ PageQuery
    \/ \E x \in RowIds : InsertRow(x)
    \/ \E x \in RowIds : DeleteRow(x)

\* A table with any rows, on a server at either isolation level.
InitPaged ==
    /\ InitDb /\ maxsize = MaxPoolSize
    /\ InitPool
    /\ InitAuth
    /\ InitUser
    /\ InitMember
    /\ InitArticle
    /\ InitLoop
    /\ rows \in SUBSET RowIds
    /\ isolation \in Isolations
    /\ pg = IdlePager

\* One fetch_paginated call while other requests insert and delete rows.
SpecPage == InitPaged /\ [][NextPage]_vars

\* ---- UserService: create_user, authenticate_user, update_user ----

\* The arguments of the calls.  NoArg is a field update_user is not given
\* (None).  The passwords: two of 6 bytes, and two of 73 bytes that differ
\* in their last byte only.
Names == {"ann", "bob"}
Emails == {"ann@x.io", "bob@x.io"}
Passwords == {Pw(6, 98), Pw(6, 99), Pw(73, 98), Pw(73, 99)}
NoArg == ""
UserIds == 1..(1 + NumCallers)
Salts == 1..NumSalts

\* SELECT ... WHERE id = %s
RowsById(id) == {row \in users : row.id = id}

\* SELECT id FROM users WHERE username = %s OR email = %s
Existing(username, email) ==
    {row \in users : row.username = username \/ row.email = email}

\* The rows other than id that a UNIQUE key would collide with.
Collides(id, username, email) ==
    {row \in users : row.id # id /\ (row.username = username \/ row.email = email)}

\* register: create_user(user_data) is called.
CallCreate(r, username, email, password) ==
    /\ ureq[r].pc = "idle"
    /\ ureq' = [ureq EXCEPT ![r] = [@ EXCEPT !.op = "create", !.pc = "check",
                                              !.username = username,
                                              !.email = email,
                                              !.password = password]]
    /\ UNCHANGED <<notUserVars, users, nextid, unique_index>>

\* create_user: the existence check (fetch_one) and, when a row came back,
\* HTTPException(400, "用户名或邮箱已存在").
CreateCheck(r) ==
    /\ ureq[r].pc = "check"
    /\ LET found == Existing(ureq[r].username, ureq[r].email) IN
         ureq' = [ureq EXCEPT ![r].seen = found,
                              ![r].pc = IF found # {} THEN "done" ELSE "insert",
                              ![r].exc = IF found # {} THEN "conflict" ELSE "none"]
    /\ UNCHANGED <<notUserVars, users, nextid, unique_index>>

\* create_user: get_password_hash, then async_db.insert('users', ...), which
\* commits.  A table with UNIQUE keys refuses a duplicate (IntegrityError).
CreateInsert(r) ==
    /\ ureq[r].pc = "insert"
    /\ nextid \in UserIds
    /\ \E salt \in Salts :
         LET rq == ureq[r]
             row == [id |-> nextid, username |-> rq.username, email |-> rq.email,
                     password_hash |-> GetPasswordHash(rq.password, salt),
                     is_active |-> TRUE, by |-> r, pw |-> rq.password] IN
           IF unique_index /\ Collides(0, rq.username, rq.email) # {}
           THEN /\ ureq' = [ureq EXCEPT ![r].pc = "done", ![r].exc = "integrity"]
                /\ UNCHANGED <<users, nextid>>
           ELSE /\ users' = users \cup {row}
                /\ nextid' = nextid + 1
                /\ ureq' = [ureq EXCEPT ![r].pc = "fetch", ![r].id = nextid]
    /\ UNCHANGED <<notUserVars, unique_index>>

\* create_user and update_user: the row is read back by its id and returned.
FetchBack(r) ==
    /\ ureq[r].pc = "fetch"
    /\ \E row \in IF RowsById(ureq[r].id) = {} THEN {NoRow} ELSE RowsById(ureq[r].id) :
         ureq' = [ureq EXCEPT ![r].pc = "done", ![r].result = row]
    /\ UNCHANGED <<notUserVars, users, nextid, unique_index>>

\* login: authenticate_user(username, password) is called.
CallAuthenticate(r, username, password) ==
    /\ ureq[r].pc = "idle"
    /\ ureq' = [ureq EXCEPT ![r] = [@ EXCEPT !.op = "authenticate", !.pc = "lookup",
                                              !.username = username,
                                              !.password = password]]
    /\ UNCHANGED <<notUserVars, users, nextid, unique_index>>

\* authenticate_user: fetch_one returns one of the active rows with the
\* username, or None; the user is returned when there is a row and
\* verify_password accepts the password for its hash.
Authenticate(r) ==
    /\ ureq[r].pc = "lookup"
    /\ LET rq == ureq[r]
           found == {row \in users : row.username = rq.username /\ row.is_active} IN
         \E user \in IF found = {} THEN {NoRow} ELSE found :
           ureq' = [ureq EXCEPT
                      ![r].pc = "done", ![r].seen = users,
                      ![r].result =
                          IF user = NoRow
                             \/ ~VerifyPassword(rq.password, user.password_hash)
                          THEN NoRow ELSE user]
    /\ UNCHANGED <<notUserVars, users, nextid, unique_index>>

\* update_user(user_id, user_data) is called with a username, an email or
\* both.
CallUpdate(r, id, username, email) ==
    /\ ureq[r].pc = "idle"
    /\ username # NoArg \/ email # NoArg
    /\ ureq' = [ureq EXCEPT ![r] = [@ EXCEPT !.op = "update", !.pc = "update",
                                              !.id = id,
                                              !.username = username,
                                              !.email = email]]
    /\ UNCHANGED <<notUserVars, users, nextid, unique_index>>

\* update_user: async_db.update('users', update_fields, "id = %s"), which
\* commits; no row is looked at before.  A table with UNIQUE keys refuses a
\* duplicate (IntegrityError).
UpdateRow(r) ==
    /\ ureq[r].pc = "update"
    /\ LET rq == ureq[r]
           change(row) == [row EXCEPT
                             !.username = IF rq.username # NoArg THEN rq.username ELSE @,
                             !.email = IF rq.email # NoArg THEN rq.email ELSE @] IN
         IF /\ unique_index
            /\ \E row \in RowsById(rq.id) :
                  Collides(rq.id, IF rq.username # NoArg THEN rq.username ELSE row.username,
                                  IF rq.email # NoArg THEN rq.email ELSE row.email) # {}
         THEN /\ ureq' = [ureq EXCEPT ![r].pc = "done", ![r].exc = "integrity"]
              /\ UNCHANGED users
         ELSE /\ users' = {IF row.id = rq.id THEN change(row) ELSE row : row \in users}
              /\ ureq' = [ureq EXCEPT ![r].pc = "fetch"]
    /\ UNCHANGED <<notUserVars, nextid, unique_index>>

NextUser ==
    \E r \in Callers :
        \/ \E u \in Names, e \in Emails, p \in Passwords : CallCreate(r, u, e, p)
        \/ CreateCheck(r)
        \/ CreateInsert(r)
        \/ FetchBack(r)
        \/ \E u \in Names, p \in Passwords : CallAuthenticate(r, u, p)
        \/ Authenticate(r)
        \/ \E id \in UserIds, u \in Names \cup {NoArg}, e \in Emails \cup {NoArg} :
              CallUpdate(r, id, u, e)
        \/ UpdateRow(r)

\* The users table with or without UNIQUE keys (its schema is not part of
\* the repository), holding one user.
InitUsers ==
    /\ InitDb /\ maxsize = MaxPoolSize
    /\ InitPool
    /\ InitAuth
    /\ InitPage
    /\ InitMember
    /\ InitArticle
    /\ InitLoop
    /\ users = {FirstUser}
    /\ nextid = 2
    /\ unique_index \in BOOLEAN
    /\ ureq = [r \in Callers |-> IdleCaller]

\* Concurrent calls of the user service.
SpecUser == InitUsers /\ [][NextUser]_vars

\* ---- json.dumps / json.loads of the tags ----

\* A str is a sequence of characters.  The characters of the model: a
\* letter, the characters JSON escapes or gives a meaning to, and one
\* character outside ASCII (written U+00E9).
Chars == {"a", "\"", "\\", ",", "]", "U+00E9"}

\* The tags of the model: letters as one-character strs.
Tag(c) == <<c>>

\* Mutant of EscapeChar: nothing is escaped.
EscapeCharRaw(c) == <<c>>

\* py_encode_basestring_ascii: what json.dumps (ensure_ascii=True) writes for
\* one character of a str.
EscapeChar(c) ==
    IF c = "\"" THEN <<"\\", "\"">>
    ELSE IF c = "\\" THEN <<"\\", "\\">>
    ELSE IF c = "U+00E9" THEN <<"\\", "u", "0", "0", "e", "9">>
    ELSE <<c>>

RECURSIVE EncodeChars(_)
EncodeChars(s) ==
    IF s = <<>> THEN <<>> ELSE EscapeChar(Head(s)) \o EncodeChars(Tail(s))

\* json.dumps of a str
EncodeStr(s) == <<"\"">> \o EncodeChars(s) \o <<"\"">>

\* the items of a list, separated by ", "
RECURSIVE EncodeItems(_)
EncodeItems(l) ==
    IF l = <<>> THEN <<>>
    ELSE IF Tail(l) = <<>> THEN EncodeStr(Head(l))
    ELSE EncodeStr(Head(l)) \o <<",", " ">> \o EncodeItems(Tail(l))

\* json.dumps(tags) for tags: Optional[List[str]]
Dumps(tags) ==
    IF tags = None THEN <<"n", "u", "l", "l">>
    ELSE <<"[">> \o EncodeItems(tags[1]) \o <<"]">>

\* A scan that failed (json.JSONDecodeError).
ScanFail == [ok |-> FALSE, val |-> <<>>, next |-> 0]

\* py_scanstring: the str whose opening quote is before position i.
RECURSIVE ScanString(_, _, _)
ScanString(t, i, acc) ==
    IF i > Len(t) THEN ScanFail
    ELSE IF t[i] = "\"" THEN [ok |-> TRUE, val |-> acc, next |-> i + 1]
    ELSE IF t[i] = "\\"
    THEN IF i + 1 > Len(t) THEN ScanFail
         ELSE IF t[i + 1] \in {"\"", "\\"}
         THEN ScanString(t, i + 2, Append(acc, t[i + 1]))
         ELSE IF /\ t[i + 1] = "u" /\ i + 5 <= Len(t)
                 /\ SubSeq(t, i + 2, i + 5) = <<"0", "0", "e", "9">>
         THEN ScanString(t, i + 6, Append(acc, "U+00E9"))
         ELSE ScanFail
    ELSE ScanString(t, i + 1, Append(acc, t[i]))

\* JSONArray: the items of a list from position i, after the items acc.
RECURSIVE ScanItems(_, _, _)
ScanItems(t, i, acc) ==
    IF i > Len(t) \/ t[i] # "\"" THEN ScanFail
    ELSE LET s == ScanString(t, i + 1, <<>>)
             j == s.next IN
         IF ~s.ok \/ j > Len(t) THEN ScanFail
         ELSE IF t[j] = "]" THEN [ok |-> TRUE, val |-> Append(acc, s.val), next |-> j + 1]
         ELSE IF t[j] = ","
         THEN ScanItems(t, IF j + 1 <= Len(t) /\ t[j + 1] = " " THEN j + 2 ELSE j + 1,
                        Append(acc, s.val))
         ELSE ScanFail

\* json.loads(text): ok and the value (None for null), or not ok
\* (JSONDecodeError).
Loads(t) ==
    IF t = <<"n", "u", "l", "l">> THEN [ok |-> TRUE, val |-> None]
    ELSE IF Len(t) < 2 \/ t[1] # "[" THEN [ok |-> FALSE, val |-> None]
    ELSE IF t = <<"[", "]">> THEN [ok |-> TRUE, val |-> Some(<<>>)]
    ELSE LET s == ScanItems(t, 2, <<>>) IN
         IF s.ok /\ s.next = Len(t) + 1 THEN [ok |-> TRUE, val |-> Some(s.val)]
         ELSE [ok |-> FALSE, val |-> None]

\* ---- ArticleService and the article routes ----

\* ArticleCreate and ArticleUpdate fields, and the columns they set.
StrFields == {"title", "content", "summary"}
ArticleFields == StrFields \cup {"tags", "is_published"}

\* ArticleUpdate(**body): a field the body omits gets the default of the
\* model, None for every field but tags, whose default is [].
ArticleUpdate(body) ==
    [f \in ArticleFields |->
        IF f \in DOMAIN body THEN body[f]
        ELSE IF f = "tags" THEN Some(<<>>)
        ELSE IF f \in StrFields THEN NoArg
        ELSE None]

\* ArticleCreate(**body): title and content are required; summary defaults
\* to None, tags to [], is_published to False.
ArticleCreate(body) ==
    [f \in ArticleFields |->
        IF f \in DOMAIN body THEN body[f]
        ELSE IF f = "tags" THEN Some(<<>>)
        ELSE IF f = "is_published" THEN Some(FALSE)
        ELSE NoArg]

\* update_article: update_fields, built from the fields that are not None.
UpdateFieldsOf(data) ==
    LET cols == {f \in StrFields : data[f] # NoArg}
                  \cup (IF data["tags"] # None THEN {"tags"} ELSE {})
                  \cup (IF data["is_published"] # None THEN {"is_published"} ELSE {}) IN
    [f \in cols |-> IF f = "tags" THEN Dumps(data["tags"])
                    ELSE IF f = "is_published" THEN data["is_published"][1]
                    ELSE data[f]]

\* UPDATE ... SET col = value, ..., updated_at = now on one row
SetColumns(row, fields) ==
    [c \in DOMAIN row |->
        IF c \in DOMAIN fields THEN fields[c]
        ELSE IF c = "updated_at" THEN row[c] + 1
        ELSE row[c]]

\* SELECT ... FROM articles WHERE id = %s
ArticleById(id) == {a \in articles : a.id = id}

\* SELECT ... FROM users WHERE id = %s
MemberById(id) == {m \in members : m.id = id}

\* get_article_by_id: the row, with tags decoded when the stored text is
\* not empty.
Detail(row) ==
    [row |-> row,
     tags |-> IF row.tags # <<>> THEN Loads(row.tags)
              ELSE [ok |-> TRUE, val |-> Some(<<>>)]]

\* get_current_active_user let the principal in: an active user of the table.
ActivePrincipals == {m.id : m \in {u \in members : u.is_active /\ u.status = "active"}}

\* The bodies of the update requests: no field; the title; the tags; every
\* field.
ArticleBodies ==
    {EmptyBody,
     [title |-> "t1"],
     [tags |-> Some(<<Tag("a")>>)],
     [title |-> "t1", content |-> "c1", summary |-> "s1",
      tags |-> Some(<<>>), is_published |-> Some(TRUE)]}

\* The tags of the create requests of the article routes.
ArticleTags == {<<>>, <<Tag("a"), Tag("\"")>>}

\* Every list of at most MaxTags tags of at most MaxTagLen characters.
StrsUpTo(n) == UNION {[1..k -> Chars] : k \in 0..n}
AllTags == UNION {[1..k -> StrsUpTo(MaxTagLen)] : k \in 0..MaxTags}

ArticleIds == 1..(1 + NumClients)

\* POST /articles by the principal uid: create_article(article, uid).
CallCreateArticle(r, uid, tags) ==
    /\ areq[r].pc = "idle"
    /\ uid \in ActivePrincipals
    /\ LET body == [title |-> "t1", content |-> "c1", tags |-> Some(tags)] IN
         areq' = [areq EXCEPT ![r] = [@ EXCEPT !.op = "create", !.pc = "insert",
                                               !.user_id = uid, !.body = body,
                                               !.data = ArticleCreate(body)]]
    /\ UNCHANGED <<notArticleVars, memberVars, articles, nextart>>

\* create_article: async_db.insert('articles', {..., 'tags': json.dumps(tags)}),
\* which commits; view_count and updated_at get the column defaults.
InsertArticle(r) ==
    /\ areq[r].pc = "insert"
    /\ nextart \in ArticleIds
    /\ LET d == areq[r].data
           row == [id |-> nextart, title |-> d["title"], content |-> d["content"],
                   summary |-> d["summary"], tags |-> Dumps(d["tags"]),
                   is_published |-> d["is_published"][1],
                   author_id |-> areq[r].user_id,
                   view_count |-> 0, updated_at |-> 0] IN
         /\ articles' = articles \cup {row}
         /\ nextart' = nextart + 1
         /\ areq' = [areq EXCEPT ![r].pc = "fetch", ![r].id = nextart]
    /\ UNCHANGED <<notArticleVars, memberVars>>

\* create_article and update_article end with get_article_by_id; the update
\* route answers 404 when it returned None.
FetchArticle(r) ==
    /\ areq[r].pc = "fetch"
    /\ LET found == ArticleById(areq[r].id) IN
         \E row \in IF found = {} THEN {NoArticle} ELSE found :
           areq' = [areq EXCEPT
                      ![r].pc = "done",
                      ![r].result = IF row = NoArticle THEN NoDetail ELSE Detail(row),
                      ![r].exc = IF row = NoArticle /\ areq[r].op = "update"
                                 THEN "notfound" ELSE "none"]
    /\ UNCHANGED <<notArticleVars, memberVars, articles, nextart>>

\* GET /articles/{id}
CallGetArticle(r, id) ==
    /\ areq[r].pc = "idle"
    /\ areq' = [areq EXCEPT ![r] = [@ EXCEPT !.op = "get", !.pc = "read", !.id = id]]
    /\ UNCHANGED <<notArticleVars, memberVars, articles, nextart>>

\* get_article: get_article_by_id; 404 when there is no article.
ReadArticle(r) ==
    /\ areq[r].pc = "read"
    /\ LET found == ArticleById(areq[r].id) IN
         \E row \in IF found = {} THEN {NoArticle} ELSE found :
           areq' = [areq EXCEPT
                      ![r].pc = IF row = NoArticle THEN "done" ELSE "bump",
                      ![r].article = row,
                      ![r].result = IF row = NoArticle THEN NoDetail ELSE Detail(row),
                      ![r].exc = IF row = NoArticle THEN "notfound" ELSE "none"]
    /\ UNCHANGED <<notArticleVars, memberVars, articles, nextart>>

\* get_article: async_db.update("articles", {"view_count": article["view_count"] + 1},
\* "id = %s"), with the count that was read; the article read is returned.
BumpViews(r) ==
    /\ areq[r].pc = "bump"
    /\ articles' = {IF a.id = areq[r].id
                    THEN [a EXCEPT !.view_count = areq[r].article.view_count + 1]
                    ELSE a : a \in articles}
    /\ areq' = [areq EXCEPT ![r].pc = "done"]
    /\ UNCHANGED <<notArticleVars, memberVars, nextart>>

\* PUT /articles/{id} by the principal uid
CallUpdateArticle(r, uid, id, body) ==
    /\ areq[r].pc = "idle"
    /\ uid \in ActivePrincipals
    /\ areq' = [areq EXCEPT ![r] = [@ EXCEPT !.op = "update", !.pc = "find",
                                             !.user_id = uid, !.id = id,
                                             !.body = body,
                                             !.data = ArticleUpdate(body)]]
    /\ UNCHANGED <<notArticleVars, memberVars, articles, nextart>>

\* DELETE /articles/{id} by the principal uid
CallDeleteArticle(r, uid, id) ==
    /\ areq[r].pc = "idle"
    /\ uid \in ActivePrincipals
    /\ areq' = [areq EXCEPT ![r] = [@ EXCEPT !.op = "delete", !.pc = "find",
                                             !.user_id = uid, !.id = id]]
    /\ UNCHANGED <<notArticleVars, memberVars, articles, nextart>>

\* update_article, delete_article: the article is read; 404 when there is none.
FindArticle(r) ==
    /\ areq[r].pc = "find"
    /\ LET found == ArticleById(areq[r].id) IN
         \E row \in IF found = {} THEN {NoArticle} ELSE found :
           areq' = [areq EXCEPT
                      ![r].pc = IF row = NoArticle THEN "done" ELSE "role",
                      ![r].article = row,
                      ![r].exc = IF row = NoArticle THEN "notfound" ELSE "none"]
    /\ UNCHANGED <<notArticleVars, memberVars, articles, nextart>>

\* if article["author_id"] != user_id and user["role"] != "admin": 403
Permitted(article, user_id, user) ==
    ~(article.author_id # user_id /\ user.role # "admin")

\* update_article, delete_article: the role of the principal is read and the
\* permission decided.  user is None when the principal's row is gone, and
\* user["role"] then raises TypeError (it is evaluated for a principal that
\* is not the author).  update_article goes on to build update_fields and
\* raises 400 when there are none.
CheckRole(r) ==
    /\ areq[r].pc = "role"
    /\ LET rq == areq[r]
           found == MemberById(rq.user_id)
           fields == UpdateFieldsOf(rq.data) IN
         \E user \in IF found = {} THEN {NoMember} ELSE found :
           areq' = [areq EXCEPT ![r] =
             IF rq.article.author_id # rq.user_id /\ user = NoMember
             THEN [@ EXCEPT !.pc = "done", !.exc = "error"]
             ELSE IF ~Permitted(rq.article, rq.user_id, user)
             THEN [@ EXCEPT !.pc = "done", !.user = user, !.exc = "forbidden"]
             ELSE IF rq.op = "delete"
             THEN [@ EXCEPT !.pc = "delete", !.user = user]
             ELSE IF DOMAIN fields = {}
             THEN [@ EXCEPT !.pc = "done", !.user = user, !.exc = "validation"]
             ELSE [@ EXCEPT !.pc = "write", !.user = user, !.update_fields = fields]]
    /\ UNCHANGED <<notArticleVars, memberVars, articles, nextart>>

\* update_article: async_db.update("articles", update_fields, "id = %s"),
\* with updated_at added; it commits.
WriteArticle(r) ==
    /\ areq[r].pc = "write"
    /\ articles' = {IF a.id = areq[r].id THEN SetColumns(a, areq[r].update_fields)
                    ELSE a : a \in articles}
    /\ areq' = [areq EXCEPT ![r].pc = "fetch"]
    /\ UNCHANGED <<notArticleVars, memberVars, nextart>>

\* delete_article: async_db.delete("articles", "id = %s"); the route answers
\* 404 when no row was affected.
DeleteArticle(r) ==
    /\ areq[r].pc = "delete"
    /\ articles' = {a \in articles : a.id # areq[r].id}
    /\ areq' = [areq EXCEPT ![r].pc = "done",
                            ![r].exc = IF ArticleById(areq[r].id) = {}
                                       THEN "notfound" ELSE "none"]
    /\ UNCHANGED <<notArticleVars, memberVars, nextart>>

\* Another request, of an administrator, deletes a user (DELETE /users/{id})
\* and commits.
MemberDeleted(id) ==
    /\ MemberById(id) # {}
    /\ members' = {m \in members : m.id # id}
    /\ UNCHANGED <<notArticleVars, mreq, articleVars>>

\* The steps of a request of the article routes that has been called.
ArticleStep(r) ==
    \/ InsertArticle(r)
    \/ FetchArticle(r)
    \/ ReadArticle(r)
    \/ BumpViews(r)
    \/ FindArticle(r)
    \/ CheckRole(r)
    \/ WriteArticle(r)
    \/ DeleteArticle(r)

NextArticle ==
    \/ \E r \in Clients :
          \/ \E uid \in MemberIds, tags \in ArticleTags : CallCreateArticle(r, uid, tags)
          \/ \E id \in ArticleIds : CallGetArticle(r, id)
          \/ \E uid \in MemberIds, id \in ArticleIds, body \in ArticleBodies :
                CallUpdateArticle(r, uid, id, body)
          \/ \E uid \in MemberIds, id \in ArticleIds : CallDeleteArticle(r, uid, id)
          \/ ArticleStep(r)
    \/ \E id \in MemberIds : MemberDeleted(id)

\* Concurrent requests of the article routes while users are deleted.
SpecArticle == InitUpper /\ [][NextArticle]_vars

\* One request creates an article with any tags and another reads it.
NextTags ==
    \/ \E tags \in AllTags : CallCreateArticle(1, Article1.author_id, tags)
    \/ InsertArticle(1)
    \/ FetchArticle(1)
    \/ \E id \in ArticleIds : CallGetArticle(2, id)
    \/ ReadArticle(2)
    \/ BumpViews(2)

SpecTags == InitUpper /\ [][NextTags]_vars

\* ---- the user routes: update_user and delete_user ----

\* The fields of UserUpdate.
UserFields == {"username", "email", "full_name", "role", "status"}

\* UserUpdate(**body): every field the body omits is None.
UserUpdate(body) ==
    [f \in UserFields |-> IF f \in DOMAIN body THEN body[f] ELSE NoArg]

\* The bodies of the update requests: no field; a name; username and email;
\* a role, a status, or both; a name and a role.
UserBodies ==
    {EmptyBody,
     [full_name |-> "Zed"],
     [username |-> "zed", email |-> "zed@x.io"],
     [role |-> "admin"],
     [status |-> "banned"],
     [role |-> "admin", status |-> "banned"],
     [full_name |-> "Zed", role |-> "admin"]}

\* get_current_user and get_current_active_user for a token of the user uid:
\* the row, when there is an active one, and the error otherwise.
CurrentUser(uid) ==
    LET found == {m \in members : m.id = uid /\ m.is_active} IN
    IF found = {} THEN [user |-> NoMember, exc |-> "unauthorized"]
    ELSE LET m == CHOOSE m \in found : TRUE IN
         IF m.status # "active" THEN [user |-> NoMember, exc |-> "inactive"]
         ELSE [user |-> m, exc |-> "none"]

\* Mutant of RoleChecker: every active user passes.
RoleCheckerAny(required_role, current_user) == TRUE

\* require_role(required_role): role_checker lets the user in unless the
\* role is neither the required one nor admin.
RoleChecker(required_role, current_user) ==
    ~(current_user.role # required_role /\ current_user.role # "admin")

\* Mutant of DiscardPrivileged: role and status are kept for every principal.
KeepPrivileged(current_user, user_update) == user_update

\* update_user (route): a principal that is not an admin has role and status
\* of the request set to None.
DiscardPrivileged(current_user, user_update) ==
    IF current_user.role # "admin"
    THEN [user_update EXCEPT !["role"] = NoArg, !["status"] = NoArg]
    ELSE user_update

\* update_user (service): update_fields, built from the fields that are not
\* None.
UserUpdateFields(user_data) ==
    [f \in {g \in UserFields : user_data[g] # NoArg} |-> user_data[f]]

\* PUT /users/{user_id} arrives with the token of the user uid.
CallUpdateUser(r, uid, user_id, body) ==
    /\ mreq[r].pc = "idle"
    /\ mreq' = [mreq EXCEPT ![r] = [@ EXCEPT !.op = "update", !.pc = "auth",
                                             !.sub = uid,
                                             !.user_id = user_id, !.body = body]]
    /\ UNCHANGED <<notMemberVars, members>>

\* DELETE /users/{user_id} arrives with the token of the user uid.
CallDeleteUser(r, uid, user_id) ==
    /\ mreq[r].pc = "idle"
    /\ mreq' = [mreq EXCEPT ![r] = [@ EXCEPT !.op = "delete", !.pc = "auth",
                                             !.sub = uid,
                                             !.user_id = user_id]]
    /\ UNCHANGED <<notMemberVars, members>>

\* The dependency has read the principal's row and the route runs up to its
\* first await.  update_user: 403 unless the principal is the user or an
\* admin; role and status discarded for a non-admin; then the service builds
\* update_fields, raises 400 when there are none, and awaits the UPDATE.
\* delete_user: 403 from require_role(UserRole.ADMIN), else the service
\* awaits the DELETE.
Authorize(r) ==
    /\ mreq[r].pc = "auth"
    /\ LET rq == mreq[r]
           cu == CurrentUser(rq.sub)
           user_update == DiscardPrivileged(cu.user, UserUpdate(rq.body))
           fields == UserUpdateFields(user_update) IN
         mreq' = [mreq EXCEPT ![r] =
           IF cu.exc # "none"
           THEN [@ EXCEPT !.pc = "done", !.exc = cu.exc]
           ELSE IF rq.op = "delete"
           THEN IF RoleChecker("admin", cu.user)
                THEN [@ EXCEPT !.pc = "delete", !.current_user = cu.user]
                ELSE [@ EXCEPT !.pc = "done", !.current_user = cu.user,
                               !.exc = "forbidden"]
           ELSE IF cu.user.id # rq.user_id /\ cu.user.role # "admin"
           THEN [@ EXCEPT !.pc = "done", !.current_user = cu.user, !.exc = "forbidden"]
           ELSE IF DOMAIN fields = {}
           THEN [@ EXCEPT !.pc = "done", !.current_user = cu.user,
                          !.user_update = user_update, !.exc = "validation"]
           ELSE [@ EXCEPT !.pc = "update", !.current_user = cu.user,
                          !.user_update = user_update, !.update_fields = fields]]
    /\ UNCHANGED <<notMemberVars, members>>

\* update_user (service): async_db.update('users', update_fields, "id = %s"),
\* with updated_at added; it commits.
UpdateMember(r) ==
    /\ mreq[r].pc = "update"
    /\ members' = {IF m.id = mreq[r].user_id THEN SetColumns(m, mreq[r].update_fields)
                   ELSE m : m \in members}
    /\ mreq' = [mreq EXCEPT ![r].pc = "fetch"]
    /\ UNCHANGED notMemberVars

\* update_user: get_user_by_id; the route answers 404 when it returned None.
FetchMember(r) ==
    /\ mreq[r].pc = "fetch"
    /\ LET found == MemberById(mreq[r].user_id) IN
         \E row \in IF found = {} THEN {NoMember} ELSE found :
           mreq' = [mreq EXCEPT ![r].pc = "done", ![r].result = row,
                                ![r].exc = IF row = NoMember THEN "notfound"
                                           ELSE "none"]
    /\ UNCHANGED <<notMemberVars, members>>

\* delete_user (service): async_db.delete("users", "id=%s"); the route
\* answers 404 when no row was affected.
DeleteMember(r) ==
    /\ mreq[r].pc = "delete"
    /\ members' = {m \in members : m.id # mreq[r].user_id}
    /\ mreq' = [mreq EXCEPT ![r].pc = "done",
                            ![r].exc = IF MemberById(mreq[r].user_id) = {}
                                       THEN "notfound" ELSE "none"]
    /\ UNCHANGED notMemberVars

NextAccount ==
    \E r \in Clients :
        \/ \E uid \in MemberIds, user_id \in MemberIds, body \in UserBodies :
              CallUpdateUser(r, uid, user_id, body)
        \/ \E uid \in MemberIds, user_id \in MemberIds : CallDeleteUser(r, uid, user_id)
        \/ Authorize(r)
        \/ UpdateMember(r)
        \/ FetchMember(r)
        \/ DeleteMember(r)

\* Concurrent requests of the user routes.
SpecAccount == InitUpper /\ [][NextAccount]_vars

\* ---- the event loop's thread during register and login ----

\* The awaits of authenticate_user and create_user: the request is suspended
\* in a call of the handler and is resumed on the event loop's thread.
LoopAwaits == {"lookup", "check", "insert", "fetch"}

\* The synchronous calls of bcrypt: verify_password and get_password_hash.
BcryptPcs == {"verifying", "hashing"}

\* login arrives: authenticate_user runs up to await async_db.fetch_one.
CallLogin(r) ==
    /\ loop = 0
    /\ hreq[r].pc = "idle"
    /\ hreq' = [hreq EXCEPT ![r] = [op |-> "authenticate", pc |-> "lookup"]]
    /\ UNCHANGED <<notLoopVars, loop>>

\* register arrives: create_user runs up to await async_db.fetch_one.
CallRegister(r) ==
    /\ loop = 0
    /\ hreq[r].pc = "idle"
    /\ hreq' = [hreq EXCEPT ![r] = [op |-> "create", pc |-> "check"]]
    /\ UNCHANGED <<notLoopVars, loop>>

\* authenticate_user is resumed with the row: None ends it; otherwise it
\* calls auth_manager.verify_password(password, user["password_hash"]), an
\* ordinary call: bcrypt runs on the thread that runs the coroutine.
LookupReturns(r, found) ==
    /\ loop = 0
    /\ hreq[r].pc = "lookup"
    /\ IF found
       THEN /\ hreq' = [hreq EXCEPT ![r].pc = "verifying"]
            /\ loop' = r
       ELSE /\ hreq' = [hreq EXCEPT ![r].pc = "done"]
            /\ UNCHANGED loop
    /\ UNCHANGED notLoopVars

\* create_user is resumed with the existence check: a row ends it with 400;
\* otherwise it calls auth_manager.get_password_hash(user_data.password), an
\* ordinary call.
CheckReturns(r, found) ==
    /\ loop = 0
    /\ hreq[r].pc = "check"
    /\ IF found
       THEN /\ hreq' = [hreq EXCEPT ![r].pc = "done"]
            /\ UNCHANGED loop
       ELSE /\ hreq' = [hreq EXCEPT ![r].pc = "hashing"]
            /\ loop' = r
    /\ UNCHANGED notLoopVars

\* bcrypt returns: authenticate_user returns; create_user goes on to
\* await async_db.insert.
BcryptReturns(r) ==
    /\ loop = r
    /\ hreq[r].pc \in BcryptPcs
    /\ hreq' = [hreq EXCEPT ![r].pc = IF hreq[r].pc = "hashing" THEN "insert"
                                      ELSE "done"]
    /\ loop' = 0
    /\ UNCHANGED notLoopVars

\* create_user is resumed after the insert, and after reading the row back.
InsertReturns(r) ==
    /\ loop = 0
    /\ hreq[r].pc = "insert"
    /\ hreq' = [hreq EXCEPT ![r].pc = "fetch"]
    /\ UNCHANGED <<notLoopVars, loop>>

ReadBackReturns(r) ==
    /\ loop = 0
    /\ hreq[r].pc = "fetch"
    /\ hreq' = [hreq EXCEPT ![r].pc = "done"]
    /\ UNCHANGED <<notLoopVars, loop>>

\* The step that resumes the request r at its await.
Resume(r) ==
    \/ \E found \in BOOLEAN : LookupReturns(r, found)
    \/ \E found \in BOOLEAN : CheckReturns(r, found)
    \/ InsertReturns(r)
    \/ ReadBackReturns(r)

\* Requests register and log in while others use run_in_thread; a coroutine
\* runs, and is resumed, only when the event loop's thread is free.
NextLoop ==
    \/ \E r \in Callers :
          \/ CallLogin(r)
          \/ CallRegister(r)
          \/ Resume(r)
          \/ BcryptReturns(r)
    \/ \E r \in Reqs :
          \/ loop = 0 /\ RunInThread(r)
          \/ loop = 0 /\ ThreadReturns(r)

SpecLoop == InitUpper /\ [][NextLoop]_vars

TypeOK ==
    /\ maxsize \in 1..MaxPoolSize
    /\ pool \in {NoPool} \cup PoolIds
    /\ npools \in 0..NumReqs
    /\ \A c \in Conns : /\ slots[c].owner \in 0..NumReqs
                        /\ slots[c].pending \subseteq StmtIds
    /\ committed \subseteq StmtIds
    /\ \A r \in Reqs : req[r].pc \in AwaitPcs \cup {"idle", "thread", "done"}
    /\ closer.pc \in {"idle", "wait_closed", "exited"}
    /\ closer.calls \in 0..MaxCloses
    /\ closes \in [PoolIds -> 0..(MaxCloses + 1)]
    /\ closed \subseteq PoolIds
    /\ tpool \in {"running", "shutdown"}
    /\ cfail \subseteq Reqs /\ retry \subseteq Reqs
    /\ now \in Nat /\ nadv \in 0..MaxAdvances
    /\ Len(issued) <= MaxTokens
    /\ accounts \subseteq Users
    /\ \A i \in 1..MaxTokens : verdicts[i].seen \in BOOLEAN
    /\ rows \subseteq 1..MaxRows
    /\ isolation \in {"REPEATABLE-READ", "READ-COMMITTED"}
    /\ pg.pc \in {"idle", "count", "page", "done"}
    /\ nextid \in 2..(2 + NumCallers)
    /\ unique_index \in BOOLEAN
    /\ \A row \in users : row.id \in 1..(1 + NumCallers)
    /\ \A r \in Callers :
          ureq[r].pc \in {"idle", "check", "insert", "fetch", "lookup", "update", "done"}
    /\ \A m \in members : m.id \in MemberIds
    /\ \A r \in Clients :
          mreq[r].pc \in {"idle", "auth", "update", "fetch", "delete", "done"}
    /\ \A a \in articles : /\ a.id \in ArticleIds
                            /\ a.view_count \in 0..NumClients
    /\ nextart \in 2..(2 + NumClients)
    /\ loop \in {0} \cup Callers
    /\ \A r \in Callers :
          hreq[r].pc \in LoopAwaits \cup BcryptPcs \cup {"idle", "done"}
    /\ \A r \in Clients :
          areq[r].pc \in {"idle", "insert", "fetch", "read", "bump", "find", "role",
                          "write", "delete", "done"}

Done(r) == req[r].pc = "done"

\* The statements of r that are committed, and all the statements r runs.
CommittedOf(r) == {st \in committed : st[1] = r}
AllOf(r) == {<<r, i>> : i \in 1..req[r].n}

----
\* C1.  A connection checked out through get_connection() is back in its pool
\* when the scope has ended, however it ended (return, exception,
\* cancellation): every connection that has an owner is held by a request
\* that is still inside the scope, and a finished request owns none.
ConnectionReleasedOnExit ==
    \A c \in Conns :
        slots[c].owner # 0 =>
            /\ ~Done(slots[c].owner)
            /\ c \in Held(slots[c].owner)

\* Two requests have left their scopes, one cancelled while it held a
\* connection, one by an exception raised after it had run a statement.
ReleasedOnExitWitness ==
    \E r1, r2 \in Reqs :
        /\ Done(r1) /\ req[r1].exc = "cancelled" /\ "stmt" \in req[r1].rel
        /\ Done(r2) /\ req[r2].exc = "error" /\ req[r2].k >= 1

\* C2.  The pool is created at most once, for any interleaving of
\* concurrent first uses.
PoolCreatedAtMostOnce == npools <= 1

\* C3.  A transaction() scope is atomic: of the statements run on the scope's
\* connection either none or all are committed, in every state; all are once
\* the scope has ended normally, none when it ended by an error.
TransactionAtomic ==
    \A r \in Reqs :
        req[r].op \in {"execute_many", "execute_script"} =>
            /\ CommittedOf(r) \in {{}, AllOf(r)}
            /\ (Done(r) /\ req[r].exc = "none") => CommittedOf(r) = AllOf(r)
            /\ req[r].exc = "error" => CommittedOf(r) = {}

\* One script has committed all its statements and another has ended by an
\* error after its first statement had run.
TransactionAtomicWitness ==
    \E r1, r2 \in Reqs :
        /\ req[r1].op = "execute_script" /\ Done(r1) /\ req[r1].exc = "none"
        /\ CommittedOf(r1) = AllOf(r1) /\ Cardinality(AllOf(r1)) > 1
        /\ req[r2].op = "execute_script" /\ Done(r2) /\ req[r2].exc = "error"
        /\ req[r2].k >= 1

\* C4.  A caller cancelled inside a scope has its transaction committed or
\* rolled back before the connection is released: no connection of a
\* cancelled request is released with a transaction open.
CancelledTxDecided ==
    \A r \in Reqs :
        req[r].exc = "cancelled" => req[r].rel \cap OpenLast = {}

CheckedOutAtMostMax == Cardinality(CheckedOut) <= maxsize

\* C7.  While max_pool_size connections are checked out no further
\* acquisition proceeds: a step taken in such a state checks out no
\* connection.  (The claim's other half, that a waiting acquisition proceeds
\* once a holder releases, is not what fails.)
FullPoolBlocksAcquire ==
    [][Cardinality(CheckedOut) >= maxsize => CheckedOut' \subseteq CheckedOut]_vars

\* C8.  A connection is held by one request at a time: no two requests hold
\* the same connection, a held connection is owned by its holder, and the
\* uncommitted work on a connection is its owner's alone.
ExclusiveOwnership ==
    /\ \A r1, r2 \in Reqs : r1 # r2 => Held(r1) \cap Held(r2) = {}
    /\ \A r \in Reqs : \A c \in Held(r) : slots[c].owner = r
    /\ \A c \in Conns : \A st \in slots[c].pending : st[1] = slots[c].owner

\* Two requests hold connections of the same pool at once, each with
\* uncommitted work of its own.
ExclusiveOwnershipWitness ==
    \E r1, r2 \in Reqs :
        /\ r1 # r2
        /\ req[r1].conn # NoConn /\ req[r2].conn # NoConn
        /\ req[r1].conn[1] = req[r2].conn[1]
        /\ slots[req[r1].conn].pending # {}
        /\ slots[req[r2].conn].pending # {}

\* C9.  After execute_many (use_transaction=True) has raised because a
\* statement failed, no row of the batch is committed.
BatchFailureCommitsNothing ==
    \A r \in Reqs :
        (req[r].op = "execute_many" /\ req[r].exc = "error") => CommittedOf(r) = {}

\* A batch has raised at its second statement, after its first had run.
BatchFailureWitness ==
    \E r \in Reqs :
        /\ req[r].op = "execute_many" /\ Done(r) /\ req[r].exc = "error"
        /\ req[r].k = 1 /\ req[r].n > 1

\* C10 as claimed.  execute() has committed its statement when it returns,
\* and the statements of execute calls wrapped in one transaction() scope are
\* not committed one by one: none or all of them are committed, and none
\* when the scope ended by an error.
ExecuteJoinsEnclosingScope ==
    \A r \in Reqs :
        /\ (req[r].op = "execute" /\ Done(r) /\ req[r].exc = "none")
               => <<r, 1>> \in committed
        /\ req[r].op = "wrapped" =>
               /\ CommittedOf(r) \in {{}, AllOf(r)}
               /\ req[r].exc = "error" => CommittedOf(r) = {}

\* C10 as amended.  execute() has committed its statement when it returns,
\* also when it is called in the body of a transaction() scope: each call
\* that has returned (k of them) has its statement committed, whatever
\* becomes of the scope.
ExecuteCommitsBeforeReturn ==
    \A r \in Reqs :
        /\ (req[r].op = "execute" /\ Done(r) /\ req[r].exc = "none")
               => <<r, 1>> \in committed
        /\ req[r].op = "wrapped" =>
               \A i \in 1..req[r].k : <<r, i>> \in committed

\* A wrapped scope has ended by the error of its second execute call, was
\* rolled back, and the statement of its first call is committed.
ExecuteCommitsWitness ==
    \E r \in Reqs :
        /\ req[r].op = "wrapped" /\ Done(r) /\ req[r].exc = "error"
        /\ req[r].k = 1 /\ req[r].n > 1
        /\ CommittedOf(r) = {<<r, 1>>}

\* C11.  When pool creation fails, the failure reaches the caller (the
\* operation ends with the error, having run nothing) and self.pool is left
\* as it was; a database operation called while self.pool is unset attempts
\* the creation, and when its creation succeeds it goes on, on the new pool,
\* to acquire a connection.
PoolCreationFailureRetried ==
    [][\A r \in Reqs :
          /\ (r \in cfail' /\ r \notin cfail) =>
                 /\ pool' = pool /\ npools' = npools /\ slots' = slots
                 /\ req'[r].pc = "done" /\ req'[r].exc = "error"
                 /\ req'[r].rel = {} /\ CommittedOf(r)' = {}
          /\ (req[r].pc = "idle" /\ req'[r].pc # "idle" /\ pool = NoPool
                /\ req'[r].op \in PoolOps) =>
                 req'[r].pc = "creating"
          /\ (req[r].pc = "creating" /\ req'[r].pc # "creating"
                                     /\ npools' = npools + 1) =>
                 /\ pool' = npools' /\ pool' \notin closed
                 /\ req'[r].pc = "acquire" /\ req'[r].bound = pool'
      ]_vars

\* The first operation ended with the error of the failed creation; an
\* operation called after that created the pool and committed its statement.
PoolCreationRetriedWitness ==
    \E r1, r2 \in Reqs :
        /\ r1 \in cfail /\ Done(r1) /\ req[r1].exc = "error"
        /\ r2 \in retry /\ r2 \notin cfail
        /\ Done(r2) /\ req[r2].exc = "none" /\ req[r2].op = "execute"
        /\ <<r2, 1>> \in committed
        /\ npools = 1 /\ pool = 1

\* C12.  close_pool() is idempotent.  When wait_closed() returns, every
\* connection of the pool is back and self.pool is unset; no pool is told to
\* close twice; and a call made while self.pool is unset (after an earlier
\* call, or with no pool ever created) returns at once, leaving the pools,
\* the connections and the thread pool as one call leaves them.
ClosePoolIdempotent ==
    [][/\ closed' # closed =>
            /\ \A c \in Conns : c[1] \in closed' \ closed => slots[c].owner = 0
            /\ (closer.pc = "wait_closed" => pool' = NoPool)
       /\ \A p \in PoolIds : closes'[p] <= 1
       /\ (closer'.calls > closer.calls /\ pool = NoPool) =>
            /\ closer'.pc = "idle"
            /\ tpool' = "shutdown"
            /\ closer.calls >= 1 => tpool' = tpool
            /\ UNCHANGED <<dbVars, closes, closed>>
      ]_vars

\* close_pool() has closed a pool that requests had used, and was then
\* called a second time.
ClosePoolTwiceWitness ==
    /\ closer.pc = "idle" /\ closer.calls = 2
    /\ closed # {} /\ pool = NoPool /\ npools = 1
    /\ committed # {}

ExpiryIsIssuedAtPlusTtl ==
    \A i \in 1..Len(issued) :
        LET c == issued[i]
            p == c.token.payload IN
        /\ c.delta # <<>> => p["exp"] = ToSeconds(c.iat + c.delta[1])
        /\ c.delta = <<>> => p["exp"] = ToSeconds(c.iat + DefaultDelta)
        /\ \A k \in DOMAIN c.data : p[k] = c.data[k]

\* C15.  A token goes from valid to expired and never back, and nothing but
\* time ends its validity: a token verify_token rejects is rejected after
\* every step, and a token it accepts is accepted with the same result
\* after every step that leaves the current second at or before its expiry
\* (users removed or added, logins, further tokens issued, the clock
\* advancing short of the expiry).
TokenLifeOnlyExpires ==
    [][\A i \in 1..Len(issued) :
          /\ Verdict(i) = Unauthorized => Verdict(i)' = Unauthorized
          /\ (Verdict(i) # Unauthorized
                /\ ToSeconds(now') <= issued[i].token.payload["exp"])
               => Verdict(i)' = Verdict(i)
      ]_vars

\* After the user was removed and a second token issued, the first token is
\* still accepted, and the second, issued with a short life, is rejected as
\* expired.
TokenLifeWitness ==
    /\ Len(issued) = 2
    /\ accounts = {}
    /\ issued[1].iat < issued[2].iat
    /\ verdicts[1].seen /\ ~verdicts[1].tampered
    /\ verdicts[1].out = TokenData("alice")
    /\ verdicts[2].seen /\ ~verdicts[2].tampered
    /\ "sub" \in DOMAIN issued[2].token.payload
    /\ issued[2].token.payload["exp"] < ToSeconds(now)
    /\ verdicts[2].out = Unauthorized

\* The least n with n * d >= t: ceil(t / d).
Ceil(t, d) == CHOOSE n \in 0..t : n * d >= t /\ \A m \in 0..t : m * d >= t => n <= m

\* C16.  The envelope of fetch_paginated has as total the row count T of the
\* base query (as the count statement read it), page and page_size as they
\* were passed, and total_pages = ceil(T / page_size): 0 pages when T = 0.
EnvelopeTotalPages ==
    pg.pc = "done" =>
        LET e == pg.result
            T == Cardinality(pg.seen) IN
        /\ e.total = T
        /\ e.page = pg.page /\ e.page_size = pg.page_size
        /\ e.total_pages = Ceil(T, e.page_size)
        /\ T = 0 => e.total_pages = 0

\* A call has returned 2 pages for 3 rows with page_size 2.
EnvelopeWitness ==
    /\ pg.pc = "done"
    /\ pg.result.total = 3 /\ pg.result.page_size = 2
    /\ pg.result.total_pages = 2

\* C17.  The items of the envelope are the rows of the base query at offsets
\* (page-1)*page_size .. in query order, and their number is
\* min(page_size, max(0, total - (page-1)*page_size)) for the total of the
\* same envelope, also when rows are inserted and deleted during the call.
ItemsMatchTotal ==
    pg.pc = "done" =>
        LET e == pg.result
            offset == (e.page - 1) * e.page_size
            rest == IF e.total > offset THEN e.total - offset ELSE 0 IN
        /\ e.items = Window(QueryRows(pg.seen), offset, e.page_size)
        /\ Len(e.items) = IF e.page_size < rest THEN e.page_size ELSE rest

\* C18.  authenticate_user(u, q) returns the row of the user with username u
\* whose password is q, and no match when no user has username u with
\* password q (another password, or an unknown username).
AuthenticateMatchesPassword ==
    \A r \in Callers :
        (ureq[r].op = "authenticate" /\ ureq[r].pc = "done") =>
            LET rq == ureq[r]
                owners == {row \in rq.seen : /\ row.username = rq.username
                                             /\ row.pw = rq.password} IN
            /\ owners # {} => rq.result \in owners
            /\ owners = {} => rq.result = NoRow

\* C19.  A registration whose username or email an existing user has (at
\* its existence check) fails with the Conflict error and inserts no row; a
\* registration with a fresh username and email inserts exactly one user,
\* holding the hash of the given password, and returns that user's row.
RegistrationConflictOrInsert ==
    \A r \in Callers :
        (ureq[r].op = "create" /\ ureq[r].pc = "done") =>
            LET rq == ureq[r]
                mine == {row \in users : row.by = r} IN
            /\ rq.seen # {} => (rq.exc = "conflict" /\ mine = {})
            /\ rq.seen = {} =>
                  /\ rq.exc = "none"
                  /\ Cardinality(mine) = 1
                  /\ \A row \in mine :
                        /\ VerifyPassword(rq.password, row.password_hash)
                        /\ rq.result.id = row.id

\* C20.  No two users share a username and no two users share an email.
UniqueUsernamesAndEmails ==
    \A a, b \in users :
        a.id # b.id => (a.username # b.username /\ a.email # b.email)

\* C21.  A partial update changes only the fields the request provides (and
\* the update timestamp) and leaves every field the request omits at its
\* stored value, tags included; an update request that omits every field is
\* rejected and never reaches the table.
PartialUpdateKeepsOmitted ==
    [][\A r \in Clients :
          /\ (areq[r].op = "update" /\ DOMAIN areq[r].body = {})
                => /\ areq'[r].pc \notin {"write", "fetch"}
                   /\ (areq[r].pc = "role" /\ areq'[r].exc = "none")
                         => areq'[r].pc = "role"
          /\ (areq[r].pc = "write" /\ areq'[r].pc = "fetch")
                => \A a \in articles, b \in articles' :
                      a.id = b.id =>
                         \A c \in DOMAIN a :
                            c \notin DOMAIN areq[r].body \cup {"updated_at"}
                               => b[c] = a[c]
      ]_vars

\* C22.  The view counter of an article is its initial value (0) plus the
\* number of detail fetches of it that have succeeded, once no detail fetch
\* of it is under way, whatever the interleaving of the fetches.
ViewCountCountsFetches ==
    \A a \in articles :
        LET fetches(pcs) == {r \in Clients : /\ areq[r].op = "get"
                                             /\ areq[r].id = a.id
                                             /\ areq[r].pc \in pcs
                                             /\ areq[r].exc = "none"} IN
        fetches({"read", "bump"}) = {} =>
            a.view_count = Cardinality(fetches({"done"}))

\* The content of an article: its id and the fields a request can set.
Content(a) == [f \in ArticleFields \cup {"id"} |-> a[f]]

\* The principal of r is the author of the article r read, or the role read
\* for it is admin.
AuthorOrAdmin(r) ==
    \/ areq[r].article.author_id = areq[r].user_id
    \/ areq[r].user.role = "admin"

\* C23.  update_article and delete_article on a missing article fail with
\* NotFound, and by a principal that is neither the article's author nor an
\* admin they fail with Forbidden; the content of an article changes, and an
\* article is removed, only in the write of a request whose principal is its
\* author or an admin.
OnlyAuthorOrAdminChanges ==
    /\ [](\A r \in Clients :
            (areq[r].op \in {"update", "delete"} /\ areq[r].pc = "done") =>
                /\ areq[r].article = NoArticle => areq[r].exc = "notfound"
                /\ (areq[r].article # NoArticle /\ ~AuthorOrAdmin(r))
                       => areq[r].exc = "forbidden")
    /\ [][\A a \in articles :
             (\A b \in articles' : Content(b) # Content(a)) =>
                 \E r \in Clients :
                    /\ areq[r].pc \in {"write", "delete"}
                    /\ areq'[r].pc # areq[r].pc
                    /\ areq[r].id = a.id
                    /\ AuthorOrAdmin(r)
         ]_vars

\* The principal of r may update the user r names: it is that user or an
\* admin.
SelfOrAdmin(r) ==
    \/ mreq[r].current_user.id = mreq[r].user_id
    \/ mreq[r].current_user.role = "admin"

\* C24.  An update request of an authenticated principal that is neither the
\* user named nor an admin, and a delete request of a principal that is not
\* an admin, fail with Forbidden; and the users table changes only in the
\* write of an update request of the user itself or an admin, which changes
\* that user's row alone, or of a delete request of an admin, which removes
\* that row alone.
UsersChangedBySelfOrAdmin ==
    /\ [](\A r \in Clients :
            (mreq[r].pc \notin {"idle", "auth"} /\ mreq[r].current_user # NoMember) =>
                /\ (mreq[r].op = "update" /\ ~SelfOrAdmin(r))
                       => (mreq[r].pc = "done" /\ mreq[r].exc = "forbidden")
                /\ (mreq[r].op = "delete" /\ mreq[r].current_user.role # "admin")
                       => (mreq[r].pc = "done" /\ mreq[r].exc = "forbidden"))
    /\ [][members' # members =>
             \E r \in Clients :
                /\ mreq'[r].pc # mreq[r].pc
                /\ \A m \in members : m.id # mreq[r].user_id => m \in members'
                /\ \/ /\ mreq[r].op = "update" /\ mreq[r].pc = "update"
                      /\ SelfOrAdmin(r)
                      /\ {m.id : m \in members'} = {m.id : m \in members}
                   \/ /\ mreq[r].op = "delete" /\ mreq[r].pc = "delete"
                      /\ mreq[r].current_user.role = "admin"
                      /\ members' \subseteq members
         ]_vars

\* A moderator's request to update another user and a user's request to
\* delete one were refused, and the table is as it was.
ForbiddenWitness ==
    \E r1, r2 \in Clients :
        /\ mreq[r1].op = "update" /\ mreq[r1].pc = "done"
        /\ mreq[r1].current_user.role = "moderator"
        /\ mreq[r1].user_id # mreq[r1].current_user.id
        /\ DOMAIN mreq[r1].body # {}
        /\ mreq[r1].exc = "forbidden"
        /\ mreq[r2].op = "delete" /\ mreq[r2].pc = "done"
        /\ mreq[r2].current_user.role = "user"
        /\ mreq[r2].exc = "forbidden"
        /\ members = Members0

\* C29.  The role and the status of an existing user change only in the
\* write of an update request whose principal is an admin.  An update request
\* of a principal that is not an admin never carries role or status to the
\* service, and when its body holds nothing but role and status it is
\* rejected as an empty update.
RoleAndStatusByAdminOnly ==
    /\ [](\A r \in Clients :
            (/\ mreq[r].op = "update" /\ mreq[r].pc \notin {"idle", "auth"}
             /\ mreq[r].current_user # NoMember
             /\ mreq[r].current_user.role # "admin"
             /\ mreq[r].exc # "forbidden") =>
                /\ DOMAIN mreq[r].update_fields \cap {"role", "status"} = {}
                /\ DOMAIN mreq[r].body \subseteq {"role", "status"}
                       => (mreq[r].pc = "done" /\ mreq[r].exc = "validation"))
    /\ [][\A m \in members, n \in members' :
             (m.id = n.id /\ (m.role # n.role \/ m.status # n.status)) =>
                 \E r \in Clients :
                    /\ mreq[r].op = "update" /\ mreq[r].pc = "update"
                    /\ mreq'[r].pc = "fetch"
                    /\ mreq[r].user_id = m.id
                    /\ mreq[r].current_user.role = "admin"
         ]_vars

\* A user updated its own record with a name and a role: the name is stored,
\* the role is as it was; and its request with a role and a status alone was
\* rejected.
RoleDiscardedWitness ==
    \E r1, r2 \in Clients :
        /\ mreq[r1].op = "update" /\ mreq[r1].pc = "done" /\ mreq[r1].exc = "none"
        /\ mreq[r1].current_user.role = "user"
        /\ mreq[r1].body = [full_name |-> "Zed", role |-> "admin"]
        /\ mreq[r1].result.full_name = "Zed" /\ mreq[r1].result.role = "user"
        /\ mreq[r2].op = "update" /\ mreq[r2].pc = "done"
        /\ mreq[r2].current_user.role = "user"
        /\ mreq[r2].body = [role |-> "admin", status |-> "banned"]
        /\ mreq[r2].exc = "validation"
        /\ \A m \in members : m.id = 2 => (m.role = "user" /\ m.status = "active")

\* C25.  Tags round-trip through the stored text: what create_article returns
\* for a request with the tags t, and what a detail fetch of the created
\* article returns, has tags equal to t, in order, for every list t of strs,
\* the empty list included.
TagsRoundTrip ==
    \A r \in Clients :
        LET made == {c \in Clients : /\ areq[c].op = "create"
                                     /\ areq[c].id = areq[r].id} IN
        (areq[r].op \in {"create", "get"} /\ areq[r].pc \in {"bump", "done"}
            /\ areq[r].exc = "none") =>
            \A c \in made :
                areq[r].result.tags = [ok |-> TRUE, val |-> areq[c].body["tags"]]

\* An article was created with two tags that hold a quote, a backslash, a
\* comma and a character outside ASCII, and a detail fetch has returned them.
TagsRoundTripWitness ==
    \E c, r \in Clients :
        /\ areq[c].op = "create" /\ areq[c].pc = "done"
        /\ areq[c].body["tags"] = Some(<< <<"\"", "\\">>, <<",", "U+00E9">> >>)
        /\ areq[r].op = "get" /\ areq[r].pc = "done" /\ areq[r].id = areq[c].id
        /\ areq[r].result.tags.val = areq[c].body["tags"]
        /\ \E a \in articles : a.id = areq[c].id /\ Len(a.tags) = 19

\* C26.  While a request is hashing or verifying a password, the other
\* requests can take steps: every request suspended at an await can be
\* resumed, because bcrypt runs on a worker thread and not on the thread of
\* the event loop.
HashingLeavesLoopFree ==
    \A r \in Callers :
        hreq[r].pc \in BcryptPcs =>
            \A q \in Callers \ {r} : hreq[q].pc \in LoopAwaits => ENABLED Resume(q)

\* C27.  A connection goes back to its pool with no transaction open: every
\* operation that was not cancelled, the reads included, has committed or
\* rolled back what it ran on the connection before it releases it.
ReleasedWithoutOpenTx ==
    \A r \in Reqs :
        req[r].exc # "cancelled" =>
            \A last \in req[r].rel : last \in {"none", "commit", "rollback"}

\* C28.  The handler stays usable across a close.  An operation called
\* while self.pool is unset creates a pool; no operation goes on to acquire
\* a connection from a pool that was told to close (one called while
\* close_pool() waits uses a live pool or waits for a new one); and
\* run_in_thread does not fail because close_pool() shut the thread pool
\* down.
UsableAcrossClose ==
    [][\A r \in Reqs :
          /\ (req[r].pc = "idle" /\ req'[r].pc # "idle" /\ pool = NoPool
                /\ req'[r].op # "run_in_thread")
                => req'[r].pc = "creating"
          /\ (req[r].pc # "acquire" /\ req'[r].pc = "acquire")
                => closes[req'[r].bound] = 0
          /\ (req[r].pc = "idle" /\ req'[r].op = "run_in_thread")
                => req'[r].exc = "none"
      ]_vars

====
